---- MODULE Spec2Model ----
(***************************************************************************)
(* Website source-acquisition pipeline (services/downloader.ts,            *)
(* services/assetDiscovery.ts): the proxy-fallback transport, the          *)
(* sequential (v1) crawl and the worker-pool (v2) crawl.                   *)
(*                                                                         *)
(* The site being crawled is the environment.  What a URL answers is       *)
(* chosen the first time the program looks at it and is then kept in       *)
(* `response`, `refsOf` and `anchorsOf`, so that every later look at the   *)
(* same URL (in the same or in a second pass) sees the same site.          *)
(***************************************************************************)
EXTENDS Integers, Sequences, FiniteSets, TLC

\* ------------------------------------------------------------------ bounds

\* PROXIES.length
NumProxies == 7
\* navigator.hardwareConcurrency || 4 : the pool size of the v2 engine
CONCURRENCY == 2
\* the largest number of distinct references one document body holds
MaxRefs == 2

\* ------------------------------------------------------------------ URLs

RootUrl == "https://x.com/"
UrlA == "https://x.com/a.css"
UrlB == "https://x.com/js/b.js"
UrlC == "https://x.com/c.png"
\* the absolute URLs a document of the site can reference
ResourceUrls == <<RootUrl, UrlA, UrlB, UrlC>>

PageAbout == "https://x.com/about"
PageLogo == "https://x.com/logo.png"
PageExt == "https://external.com/x"

\* URLs met in a retry pass: a minified library, a script whose path holds
\* 'data:', and a frame of another host whose path is empty
UrlMin == "https://x.com/lib.min.js"
UrlData == "https://x.com/data:x/d.js"
UrlFrame == "https://cdn.com/"

\* References a document can hold to the same path on another origin and
\* with a query string
UrlCdnA == "https://cdn.com/a.css"
UrlAQuery == "https://x.com/a.css?v=2"

\* new URL(u): origin, hostname and pathname (the segments after the
\* leading slash)
URL(u) ==
    CASE u = RootUrl ->
           [origin |-> "https://x.com", hostname |-> "x.com", pathname |-> <<>>]
      [] u = UrlA ->
           [origin |-> "https://x.com", hostname |-> "x.com",
            pathname |-> <<"a.css">>]
      [] u = UrlB ->
           [origin |-> "https://x.com", hostname |-> "x.com",
            pathname |-> <<"js", "b.js">>]
      [] u = UrlC ->
           [origin |-> "https://x.com", hostname |-> "x.com",
            pathname |-> <<"c.png">>]
      [] u = PageAbout ->
           [origin |-> "https://x.com", hostname |-> "x.com",
            pathname |-> <<"about">>]
      [] u = PageLogo ->
           [origin |-> "https://x.com", hostname |-> "x.com",
            pathname |-> <<"logo.png">>]
      [] u = PageExt ->
           [origin |-> "https://external.com", hostname |-> "external.com",
            pathname |-> <<"x">>]
      [] u = UrlMin ->
           [origin |-> "https://x.com", hostname |-> "x.com",
            pathname |-> <<"lib.min.js">>]
      [] u = UrlData ->
           [origin |-> "https://x.com", hostname |-> "x.com",
            pathname |-> <<"data:x", "d.js">>]
      [] u = UrlFrame ->
           [origin |-> "https://cdn.com", hostname |-> "cdn.com",
            pathname |-> <<>>]
      [] u = UrlCdnA ->
           [origin |-> "https://cdn.com", hostname |-> "cdn.com",
            pathname |-> <<"a.css">>]
      [] u = UrlAQuery ->
           [origin |-> "https://x.com", hostname |-> "x.com",
            pathname |-> <<"a.css">>]

\* POTENTIAL_ASSET_EXTENSIONS.test(pathname): the last segment ends in a
\* listed extension
POTENTIAL_ASSET_EXTENSIONS(pathname) ==
    /\ pathname # <<>>
    /\ pathname[Len(pathname)] \in {"a.css", "b.js", "c.png", "logo.png"}

\* new URL(url).pathname.substring(1) || 'index.html'
relativePath(u) ==
    IF URL(u).pathname = <<>> THEN <<"index.html">> ELSE URL(u).pathname

\* ------------------------------------------------------------ small helpers

Range(s) == {s[i] : i \in 1..Len(s)}

NoDup(s) == \A i, j \in 1..Len(s) : i # j => s[i] # s[j]

\* number of positions of s that hold x
Count(s, x) == Cardinality({i \in 1..Len(s) : s[i] = x})

\* the subsequences of `universe` (order kept) of at most n elements:
\* what one extractor call returns, a de-duplicated list
RECURSIVE SubSeqs(_, _)
SubSeqs(universe, n) ==
    IF universe = <<>> \/ n = 0 THEN {<<>>}
    ELSE LET rest == Tail(universe)
         IN SubSeqs(rest, n) \cup
            {<<Head(universe)>> \o s : s \in SubSeqs(rest, n - 1)}

\* the value already known for key k, or every value of `choices`
Known(f, k, choices) == IF k \in DOMAIN f THEN {f[k]} ELSE choices

Put(f, k, v) == [x \in DOMAIN f \cup {k} |-> IF x = k THEN v ELSE f[x]]

Bump(f, k) == Put(f, k, IF k \in DOMAIN f THEN f[k] + 1 ELSE 1)

Times(f, k) == IF k \in DOMAIN f THEN f[k] ELSE 0

\* ------------------------------------------------------------- the site

\* What one proxy does with one request: an HTTP status, or 0 when the
\* connection fails and fetch() throws.
Outcomes == {200, 404, 500, 0}

\* response.ok
ResponseOk(status) == status >= 200 /\ status <= 299

\* the answers of the NumProxies proxies, first proxy first
AllOutcomes == [1..NumProxies -> Outcomes]

\* Proxy answers met in a crawl: two 500s and then 200s, one 404 and then
\* 200s, no proxy reachable.
Fallback200 == [i \in 1..NumProxies |-> IF i <= 2 THEN 500 ELSE 200]
NotFoundThen200 == [i \in 1..NumProxies |-> IF i <= 1 THEN 404 ELSE 200]
Unreachable == [i \in 1..NumProxies |-> 0]

\* the content-type header of a response; NoHeader when there is none
NoHeader == "(none)"

\* The site: what the proxies answer for a URL and the content-type header
\* the response carries.  The root is a page served with or without a
\* header; a.css may be missing on the first proxy; c.png is an image.
ResponseChoices(u) ==
    CASE u = RootUrl ->
           [outcomes : {Fallback200, Unreachable}, header : {"text/html", NoHeader}]
             \ {[outcomes |-> Unreachable, header |-> NoHeader]}
      [] u = UrlA ->
           [outcomes : {Fallback200, NotFoundThen200, Unreachable},
            header : {"text/css"}]
      [] u = UrlB ->
           [outcomes : {Fallback200, Unreachable},
            header : {"application/javascript"}]
      [] OTHER ->
           [outcomes : {Fallback200, Unreachable}, header : {"image/png"}]

\* the reference lists an extractor call can return for a body
RefChoices == SubSeqs(ResourceUrls, MaxRefs)

\* the anchors of a body: none, or a page, an asset and a foreign page
AnchorChoices == { <<>>, <<PageAbout, PageLogo, PageExt>> }

\* contentType.includes(word)
includes(contentType, word) ==
    CASE word = "text" -> contentType \in {"text/html", "text/css"}
      [] word = "html" -> contentType = "text/html"
      [] word = "css" -> contentType = "text/css"
      [] word = "javascript" -> contentType = "application/javascript"
      [] word = "json" -> contentType = "application/json"
      [] OTHER -> FALSE

\* contentType.includes('text') || .includes('javascript') || .includes('json')
isTextLike(contentType) ==
    \/ includes(contentType, "text")
    \/ includes(contentType, "javascript")
    \/ includes(contentType, "json")

\* findAllResources: whether a parser is run on the body (otherwise [])
findAllResourcesParses(contentType) ==
    \/ includes(contentType, "html")
    \/ includes(contentType, "css")
    \/ includes(contentType, "javascript")
    \/ includes(contentType, "application/ecmascript")
    \/ includes(contentType, "json")

\* findAllResources giving the references of a manifest that JSON.parse
\* rejects
findAllResourcesReadsAnyway(contentType, url, rejected) ==
    findAllResourcesParses(contentType)

\* findAllResources: whether the call returns the references the body of
\* `url` holds.  findResourcesInManifest returns [] when JSON.parse throws;
\* findResourcesInJsAst goes to its regex pass when acorn.parse throws;
\* DOMParser and the CSS regex take any body.
findAllResourcesReads(contentType, url, rejected) ==
    /\ findAllResourcesParses(contentType)
    /\ ~(/\ includes(contentType, "json")
         /\ ~includes(contentType, "html")
         /\ ~includes(contentType, "css")
         /\ ~includes(contentType, "javascript")
         /\ ~includes(contentType, "application/ecmascript")
         /\ url \in rejected)

\* findInternalLinksInHtml: same origin and no asset extension
RECURSIVE findInternalLinksInHtml(_, _)
findInternalLinksInHtml(anchors, baseUrl) ==
    IF anchors = <<>> THEN {}
    ELSE LET absoluteUrl == Head(anchors)
             rest == findInternalLinksInHtml(Tail(anchors), baseUrl)
         IN IF /\ URL(absoluteUrl).origin = URL(baseUrl).origin
               /\ ~POTENTIAL_ASSET_EXTENSIONS(URL(absoluteUrl).pathname)
            THEN {absoluteUrl} \cup rest
            ELSE rest

\* ------------------------------------------------------------ transport

\* fetchWithProxy without the response.ok test: any response is returned
RECURSIVE fetchWithProxyAnyResponse(_, _)
fetchWithProxyAnyResponse(outcomes, proxyIndex) ==
    IF proxyIndex >= NumProxies
    THEN [threw |-> TRUE, status |-> 0, proxy |-> -1, contacted |-> <<>>]
    ELSE LET status == outcomes[proxyIndex + 1]
             next == fetchWithProxyAnyResponse(outcomes, proxyIndex + 1)
         IN IF status = 0
            THEN [next EXCEPT !.contacted = <<proxyIndex>> \o @]
            ELSE [threw |-> FALSE, status |-> status, proxy |-> proxyIndex,
                  contacted |-> <<proxyIndex>>]

\* fetchWithProxy giving up one proxy before the end of the list
RECURSIVE fetchWithProxyStopsEarly(_, _)
fetchWithProxyStopsEarly(outcomes, proxyIndex) ==
    IF proxyIndex >= NumProxies - 1
    THEN [threw |-> TRUE, status |-> 0, proxy |-> -1, contacted |-> <<>>]
    ELSE LET status == outcomes[proxyIndex + 1]
             next == fetchWithProxyStopsEarly(outcomes, proxyIndex + 1)
         IN IF status = 0 \/ ~ResponseOk(status)
            THEN [next EXCEPT !.contacted = <<proxyIndex>> \o @]
            ELSE [threw |-> FALSE, status |-> status, proxy |-> proxyIndex,
                  contacted |-> <<proxyIndex>>]

\* fetchWithProxy of the main thread: the proxies contacted, in order, and
\* the response returned or the throw of 'All proxies failed.'
RECURSIVE fetchWithProxy(_, _)
fetchWithProxy(outcomes, proxyIndex) ==
    IF proxyIndex >= NumProxies
    THEN [threw |-> TRUE, status |-> 0, proxy |-> -1, contacted |-> <<>>]
    ELSE LET status == outcomes[proxyIndex + 1]
             next == fetchWithProxy(outcomes, proxyIndex + 1)
         IN IF status = 0 \/ ~ResponseOk(status)
            THEN [next EXCEPT !.contacted = <<proxyIndex>> \o @]
            ELSE [threw |-> FALSE, status |-> status, proxy |-> proxyIndex,
                  contacted |-> <<proxyIndex>>]

\* the worker's fetchWithProxy with the 5xx test off by one (status > 500)
RECURSIVE workerFetchWithProxyOffByOne(_, _)
workerFetchWithProxyOffByOne(outcomes, proxyIndex) ==
    IF proxyIndex >= NumProxies
    THEN [threw |-> TRUE, status |-> 0, proxy |-> -1, contacted |-> <<>>]
    ELSE LET status == outcomes[proxyIndex + 1]
             next == workerFetchWithProxyOffByOne(outcomes, proxyIndex + 1)
         IN IF status = 0 \/ (status > 500 /\ status < 600)
            THEN [next EXCEPT !.contacted = <<proxyIndex>> \o @]
            ELSE [threw |-> FALSE, status |-> status, proxy |-> proxyIndex,
                  contacted |-> <<proxyIndex>>]

\* fetchWithProxy of workerCode: only a 5xx status or a connection failure
\* moves on to the next proxy
RECURSIVE workerFetchWithProxy(_, _)
workerFetchWithProxy(outcomes, proxyIndex) ==
    IF proxyIndex >= NumProxies
    THEN [threw |-> TRUE, status |-> 0, proxy |-> -1, contacted |-> <<>>]
    ELSE LET status == outcomes[proxyIndex + 1]
             next == workerFetchWithProxy(outcomes, proxyIndex + 1)
         IN IF status = 0 \/ (status >= 500 /\ status < 600)
            THEN [next EXCEPT !.contacted = <<proxyIndex>> \o @]
            ELSE [threw |-> FALSE, status |-> status, proxy |-> proxyIndex,
                  contacted |-> <<proxyIndex>>]

\* ---------------------------------------------------------------- state

VARIABLES
    engine,          \* 'v1' or 'v2', the argument of fetchWebsiteSource
    pc,              \* where the crawl's own control is
    downloadQueue,   \* the queue of {url, initiator}
    processedUrls,   \* the processed set
    networkLog,      \* the list of NetworkLogEntry
    failedUrls,      \* the list of failed URLs
    internalLinks,   \* the set of internal links
    zip,             \* the archive: path -> URL whose bytes it holds
    downloadedCount,
    activeWorkers,   \* v2: the counter
    idleWorkers,     \* v2: the list of idle workers
    terminated,      \* v2: cleanup() has run
    inflight,        \* v2: requests posted to a worker and not yet answered
    decoding,        \* v2: handlers suspended at await blob.text()
    fetchCache,      \* the cache: URL -> state of the cached promise
    current,         \* v1 and the root fetch: the item being fetched
    promise,         \* state of the promise fetchWebsiteSource returned
    result,          \* what that promise was resolved with
    resolveCalls,    \* number of 'Finalizing ZIP file...' / resolve calls
    progress,        \* the last onProgress call
    progressCalls,   \* number of onProgress calls
    discovered,      \* the URLs in the order of their downloadQueue.push
    fetchOrder,      \* the URLs in the order in which their fetches began
    written,         \* the URLs in the order of their zip.file
    warnings,        \* the URLs onWarning was called with, in order
    adds,            \* URL -> number of processedUrls.add(url) calls
    enqueues,        \* URL -> number of downloadQueue.push calls
    fetches,         \* URL -> number of logical Transport Layer fetches
    response,        \* the site: URL -> proxies' answers and header
    refsOf,          \* the site: URL -> references of its body
    anchorsOf,       \* the site: URL -> anchors of its body
    unparsable,      \* the site: the URLs whose body acorn and JSON.parse reject
    firstResult,     \* result of the v1 pass made before a v2 pass on the same site
    pxOutcomes,      \* transport check: the proxies' answers
    pxMain,          \* transport check: the results of fetchWithProxy calls
    pxWorker,        \* transport check: the results of the worker's copy
    rVariant,        \* retry: 'plain' (retryFailedDownloads) or 'inline' (...AsDataURI)
    rPc,             \* retry: where the pass is
    rFailedUrls,     \* retry: the failedUrls argument
    rZip,            \* retry: the zip argument, path -> content
    rZip0,           \* retry: the archive as it was handed in
    rNetworkLog,     \* retry: the networkLog argument
    rStillFailedUrls, \* retry: stillFailedUrls
    rIndex,          \* retry: position of the for loop in failedUrls
    rDownloadedCount, \* retry: downloadedCount
    rInitiatorsToPatch, \* retry: the Map initiator -> replacements, in insertion order
    rPatchIndex,     \* retry: position of the second pass in the Map
    rFetchCache,     \* retry: fetchCache and the count of Transport Layer fetches
    rRefetched,      \* retry: URL -> outcome of its forced re-fetch in this pass
    rLookups,        \* retry: URL -> number of findCdnUrl calls in this pass
    rAnswers,        \* retry: URL -> the collaborator's answer and findCdnUrl's result
    rPatchFailed,    \* retry: initiators whose patch failed or was skipped
    rProgress,       \* retry: the last onProgress message
    cfCache,         \* cache check: fetchCache, URL -> the request whose promise it holds
    cfRequests,      \* cache check: the fetchWithProxy calls made, in order
    cfCalls,         \* cache check: the cachedFetch calls made, in order
    xContentType,    \* extractor: the contentType argument of findAllResources
    xBody,           \* extractor: the references the content holds, as written
    xImports,        \* extractor: a script's references are import() sources
    xResources,      \* extractor: the array findAllResources returned
    hOptions,        \* headers: the options the caller supplied
    hSent,           \* headers: the requests made to proxies, with their headers
    phase,           \* application: the AppPhase of the App component
    scanResult,      \* application: where the stored result came from, or None
    failedDownloads, \* application: the failed list the App holds
    appCalls,        \* application: the calls of the services that have not settled
    appSettled       \* application: the call that settled last and its outcome

crawlVars ==
    <<pc, downloadQueue, processedUrls, networkLog, failedUrls,
      internalLinks, zip, downloadedCount, activeWorkers, idleWorkers,
      terminated, inflight, decoding, fetchCache, current, promise, result,
      resolveCalls, progress, progressCalls, warnings, adds, enqueues,
      fetches, discovered, fetchOrder, written>>
siteVars == <<response, refsOf, anchorsOf, unparsable>>
pxVars == <<pxOutcomes, pxMain, pxWorker>>
retryVars ==
    <<rVariant, rPc, rFailedUrls, rZip, rZip0, rNetworkLog, rStillFailedUrls,
      rIndex, rDownloadedCount, rInitiatorsToPatch, rPatchIndex, rFetchCache,
      rRefetched, rLookups, rAnswers, rPatchFailed, rProgress>>
cacheVars == <<cfCache, cfRequests, cfCalls>>
extractVars == <<xContentType, xBody, xImports, xResources>>
headerVars == <<hOptions, hSent>>
appVars == <<phase, scanResult, failedDownloads, appCalls, appSettled>>
moreVars == <<retryVars, cacheVars, extractVars, headerVars, appVars>>
vars == <<engine, crawlVars, siteVars, firstResult, pxVars, moreVars>>

None == "(none)"
\* what `result` holds while the promise has not been resolved
NoResult == [settled |-> FALSE]
Empty == [x \in {} |-> 0]

\* the crawl's variables as one value, so that the calls a handler makes
\* can be applied one after the other
Cur ==
    [pc |-> pc, downloadQueue |-> downloadQueue,
     processedUrls |-> processedUrls, networkLog |-> networkLog,
     failedUrls |-> failedUrls, internalLinks |-> internalLinks, zip |-> zip,
     downloadedCount |-> downloadedCount, activeWorkers |-> activeWorkers,
     idleWorkers |-> idleWorkers, terminated |-> terminated,
     inflight |-> inflight, decoding |-> decoding, fetchCache |-> fetchCache,
     current |-> current, promise |-> promise, result |-> result,
     resolveCalls |-> resolveCalls, progress |-> progress,
     progressCalls |-> progressCalls, discovered |-> discovered,
     fetchOrder |-> fetchOrder, written |-> written,
     warnings |-> warnings, adds |-> adds, enqueues |-> enqueues,
     fetches |-> fetches]

Commit(s) ==
    /\ pc' = s.pc
    /\ downloadQueue' = s.downloadQueue
    /\ processedUrls' = s.processedUrls
    /\ networkLog' = s.networkLog
    /\ failedUrls' = s.failedUrls
    /\ internalLinks' = s.internalLinks
    /\ zip' = s.zip
    /\ downloadedCount' = s.downloadedCount
    /\ activeWorkers' = s.activeWorkers
    /\ idleWorkers' = s.idleWorkers
    /\ terminated' = s.terminated
    /\ inflight' = s.inflight
    /\ decoding' = s.decoding
    /\ fetchCache' = s.fetchCache
    /\ current' = s.current
    /\ promise' = s.promise
    /\ result' = s.result
    /\ resolveCalls' = s.resolveCalls
    /\ progress' = s.progress
    /\ progressCalls' = s.progressCalls
    /\ discovered' = s.discovered
    /\ fetchOrder' = s.fetchOrder
    /\ written' = s.written
    /\ warnings' = s.warnings
    /\ adds' = s.adds
    /\ enqueues' = s.enqueues
    /\ fetches' = s.fetches

\* the locals of a crawl as fetchWebsiteSource / runWorkerDownload set them up
Fresh ==
    [pc |-> "start", downloadQueue |-> <<>>, processedUrls |-> {},
     networkLog |-> <<>>, failedUrls |-> <<>>, internalLinks |-> {},
     zip |-> Empty, downloadedCount |-> 0, activeWorkers |-> 0,
     idleWorkers |-> <<>>, terminated |-> FALSE, inflight |-> {},
     decoding |-> {}, fetchCache |-> Empty, current |-> None,
     promise |-> "pending", result |-> NoResult,
     resolveCalls |-> 0,
     progress |-> None, progressCalls |-> 0, discovered |-> <<>>,
     fetchOrder |-> <<>>, written |-> <<>>, warnings |-> <<>>,
     adds |-> Empty,
     enqueues |-> Empty, fetches |-> Empty]

\* ------------------------------------------------- calls shared by both

\* onProgress({message, downloaded, total})
onProgress(s, message) ==
    [s EXCEPT !.progress = [message |-> message,
                            downloaded |-> s.downloadedCount,
                            total |-> Cardinality(s.processedUrls)],
              !.progressCalls = @ + 1]

\* processedUrls.add(url) that counts the call and forgets the insertion
processedAddForgets(s, url) == [s EXCEPT !.adds = Bump(@, url)]

\* processedUrls.add(url)
processedAdd(s, url) ==
    [s EXCEPT !.processedUrls = @ \cup {url}, !.adds = Bump(@, url)]

\* downloadQueue.unshift in the place of downloadQueue.push
queueUnshift(s, url, initiator) ==
    [s EXCEPT !.downloadQueue = <<[url |-> url, initiator |-> initiator]>> \o @,
              !.enqueues = Bump(@, url),
              !.discovered = Append(@, url)]

\* downloadQueue.push({url, initiator})
queuePush(s, url, initiator) ==
    [s EXCEPT !.downloadQueue = Append(@, [url |-> url, initiator |-> initiator]),
              !.enqueues = Bump(@, url),
              !.discovered = Append(@, url)]

\* networkLog.push(entry)
logPush(s, url, initiator, status, statusText, contentType, isError) ==
    [s EXCEPT !.networkLog =
        Append(@, [url |-> url, initiator |-> initiator, status |-> status,
                   statusText |-> statusText, contentType |-> contentType,
                   isError |-> isError])]

\* zip.file with the path of an empty pathname made from the host name
zipFileHostName(s, url) ==
    [s EXCEPT !.zip =
        Put(@, IF URL(url).pathname = <<>> THEN <<URL(url).hostname \o ".html">>
                                          ELSE URL(url).pathname,
            url),
              !.written = Append(@, url)]

\* zip.file(relativePath, content): the content is the body of `url`
zipFile(s, url) ==
    [s EXCEPT !.zip = Put(@, relativePath(url), url),
              !.written = Append(@, url)]

\* what the returned promise is resolved with: {zip, networkLog, failedUrls,
\* internalLinks}, with downloadedCount and processedUrls at that moment
Snapshot(s) ==
    [zip |-> s.zip, networkLog |-> s.networkLog, failedUrls |-> s.failedUrls,
     internalLinks |-> s.internalLinks, downloaded |-> s.downloadedCount,
     processed |-> s.processedUrls]

\* resolve(value) / return value: only the first settles the promise
resolve(s) ==
    IF s.promise = "pending"
    THEN [s EXCEPT !.promise = "resolved", !.result = Snapshot(s)]
    ELSE s

\* reject(error) / throw
reject(s) ==
    IF s.promise = "pending" THEN [s EXCEPT !.promise = "rejected"] ELSE s

\* cachedFetch(url, options, forceFresh), up to its await: a cached entry
\* is shared, otherwise fetchWithProxy is called and its promise cached
cachedFetchCall(s, url, forceFresh) ==
    IF url \in DOMAIN s.fetchCache /\ ~forceFresh
    THEN s
    ELSE [s EXCEPT !.fetchCache = Put(@, url, "pending"),
                   !.fetches = Bump(@, url),
                   !.fetchOrder = Append(@, url)]

\* cachedFetch after its await: a failure evicts the entry
cachedFetchSettle(s, url, threw) ==
    IF threw
    THEN [s EXCEPT !.fetchCache = [x \in DOMAIN @ \ {url} |-> @[x]]]
    ELSE [s EXCEPT !.fetchCache = Put(@, url, "fulfilled")]

\* response.headers.get('content-type') || fallback
contentTypeOf(header, fallback) == IF header = NoHeader THEN fallback ELSE header

\* response.statusText
statusTextOf(status) ==
    CASE status = 200 -> "OK"
      [] status = 404 -> "Not Found"
      [] status = 500 -> "Internal Server Error"
      [] OTHER -> ""

\* onWarning({url, message})
onWarning(s, url) == [s EXCEPT !.warnings = Append(@, url)]

\* ------------------------------------------- v1: the sequential engine

\* newResources.forEach(res => { if (!processedUrls.has(res)) {...} })
RECURSIVE v1ForEach(_, _, _)
v1ForEach(s, newResources, currentUrl) ==
    IF newResources = <<>> THEN s
    ELSE LET res == Head(newResources)
         IN IF res \notin s.processedUrls
            THEN v1ForEach(queuePush(processedAdd(s, res), res, currentUrl),
                           Tail(newResources), currentUrl)
            ELSE v1ForEach(s, Tail(newResources), currentUrl)

\* the catch block without its onWarning call
v1CatchSilent(s, currentUrl, initiator) ==
    logPush([s EXCEPT !.failedUrls = Append(@, currentUrl)],
            currentUrl, initiator, 0, "Download Failed", "unknown", TRUE)

\* the catch block of the loop body
v1Catch(s, currentUrl, initiator) ==
    onWarning(
        logPush([s EXCEPT !.failedUrls = Append(@, currentUrl)],
                currentUrl, initiator, 0, "Download Failed", "unknown", TRUE),
        currentUrl)

\* the try block with the links of every HTML document collected
v1TryAnyDocument(s, currentUrl, initiator, fetched, header, refs, anchors) ==
    LET contentType == contentTypeOf(header, "application/octet-stream")
        logged == logPush(s, currentUrl, initiator, fetched.status,
                          statusTextOf(fetched.status), contentType,
                          ~ResponseOk(fetched.status))
        stored == zipFile(logged, currentUrl)
        newResources == IF findAllResourcesParses(contentType) THEN refs ELSE <<>>
        queued == v1ForEach(stored, newResources, currentUrl)
        linked ==
            IF includes(contentType, "html")
            THEN [queued EXCEPT !.internalLinks =
                     @ \cup findInternalLinksInHtml(anchors, currentUrl)]
            ELSE queued
        parsed == IF isTextLike(contentType) THEN linked ELSE stored
    IN IF ~ResponseOk(fetched.status)
       THEN v1Catch(logged, currentUrl, initiator)
       ELSE [parsed EXCEPT !.downloadedCount = @ + 1]

\* the try block of the loop body after cachedFetch has returned `fetched`
v1Try(s, currentUrl, initiator, fetched, header, refs, anchors) ==
    LET contentType == contentTypeOf(header, "application/octet-stream")
        logged == logPush(s, currentUrl, initiator, fetched.status,
                          statusTextOf(fetched.status), contentType,
                          ~ResponseOk(fetched.status))
        stored == zipFile(logged, currentUrl)
        newResources == IF findAllResourcesParses(contentType) THEN refs ELSE <<>>
        queued == v1ForEach(stored, newResources, currentUrl)
        linked ==
            IF currentUrl = RootUrl /\ includes(contentType, "html")
            THEN [queued EXCEPT !.internalLinks =
                     @ \cup findInternalLinksInHtml(anchors, currentUrl)]
            ELSE queued
        parsed == IF isTextLike(contentType) THEN linked ELSE stored
    IN IF ~ResponseOk(fetched.status)
       THEN v1Catch(logged, currentUrl, initiator)
       ELSE [parsed EXCEPT !.downloadedCount = @ + 1]

\* one pass of the while loop, from the return of cachedFetch on
v1Body(s, fetched, header, refs, anchors) ==
    LET currentUrl == s.current.url
        initiator == s.current.initiator
        settled == IF s.current.own
                   THEN cachedFetchSettle(s, currentUrl, fetched.threw)
                   ELSE s
        done == IF fetched.threw
                THEN v1Catch(settled, currentUrl, initiator)
                ELSE v1Try(settled, currentUrl, initiator, fetched, header,
                           refs, anchors)
    IN [onProgress(done, "Processing...") EXCEPT !.pc = "loop", !.current = None]

\* fetchWebsiteSource with engine v1, up to the while loop
V1Start ==
    /\ engine = "v1"
    /\ pc = "start"
    /\ Commit([queuePush(processedAdd(Fresh, RootUrl), RootUrl, "Initial Request")
                  EXCEPT !.pc = "loop"])
    /\ UNCHANGED <<engine, siteVars, firstResult, pxVars, moreVars>>

\* the head of the loop: shift, onProgress, and cachedFetch up to its await
V1Dequeue ==
    /\ engine = "v1"
    /\ pc = "loop"
    /\ Len(downloadQueue) > 0
    /\ LET item == Head(downloadQueue)
           s1 == onProgress([Cur EXCEPT !.downloadQueue = Tail(@)], "Downloading")
           own == ~(item.url \in DOMAIN s1.fetchCache)
           s2 == cachedFetchCall(s1, item.url, FALSE)
       IN Commit([s2 EXCEPT !.pc = "fetching",
                            !.current = [url |-> item.url,
                                         initiator |-> item.initiator,
                                         own |-> own]])
    /\ UNCHANGED <<engine, siteVars, firstResult, pxVars, moreVars>>

\* cachedFetch returns or throws, and the rest of the loop body runs
V1Complete ==
    /\ engine = "v1"
    /\ pc = "fetching"
    /\ \E rsp \in Known(response, current.url, ResponseChoices(current.url)) :
         LET fetched == fetchWithProxy(rsp.outcomes, 0)
             contentType == contentTypeOf(rsp.header, "application/octet-stream")
             parses == /\ ~fetched.threw
                       /\ ResponseOk(fetched.status)
                       /\ isTextLike(contentType)
             reads == parses /\ findAllResourcesReads(contentType, current.url,
                                                      unparsable)
             links == parses /\ includes(contentType, "html")
         IN \E refs \in (IF reads THEN Known(refsOf, current.url, RefChoices)
                                  ELSE {<<>>}) :
            \E anchors \in (IF links THEN Known(anchorsOf, current.url, AnchorChoices)
                                     ELSE {<<>>}) :
              /\ response' = Put(response, current.url, rsp)
              /\ refsOf' = IF reads THEN Put(refsOf, current.url, refs) ELSE refsOf
              /\ anchorsOf' = IF links THEN Put(anchorsOf, current.url, anchors)
                                       ELSE anchorsOf
              /\ Commit(v1Body(Cur, fetched, rsp.header, refs, anchors))
    /\ UNCHANGED <<engine, unparsable, firstResult, pxVars, moreVars>>

\* the loop ends: the last onProgress and the return
V1Return ==
    /\ engine = "v1"
    /\ pc = "loop"
    /\ Len(downloadQueue) = 0
    /\ Commit([resolve([onProgress(Cur, "Finalizing ZIP file...")
                           EXCEPT !.resolveCalls = @ + 1])
                  EXCEPT !.pc = "done"])
    /\ UNCHANGED <<engine, siteVars, firstResult, pxVars, moreVars>>

\* ------------------------------------------ v2: the worker-pool engine

\* cleanup(): workers.forEach(w => w.terminate())
cleanup(s) == [s EXCEPT !.terminated = TRUE]

\* checkCompletion() that looks at the queue alone
checkCompletionQueueOnly(s) ==
    IF Len(s.downloadQueue) = 0
    THEN resolve(cleanup([onProgress(s, "Finalizing ZIP file...")
                             EXCEPT !.resolveCalls = @ + 1]))
    ELSE s

\* checkCompletion()
checkCompletion(s) ==
    IF Len(s.downloadQueue) = 0 /\ s.activeWorkers = 0
    THEN resolve(cleanup([onProgress(s, "Finalizing ZIP file...")
                             EXCEPT !.resolveCalls = @ + 1]))
    ELSE s

\* worker.postMessage({url, options, initiator}): a terminated worker
\* never answers, a live one runs its fetchWithProxy for the URL
postMessage(s, worker, url) ==
    [s EXCEPT !.inflight = @ \cup {[worker |-> worker, url |-> url]},
              !.fetches = IF s.terminated THEN @ ELSE Bump(@, url),
              !.fetchOrder = IF s.terminated THEN @ ELSE Append(@, url)]

\* assignWork that puts the worker in the idle list whatever the queue holds
assignWorkIdleOnly(s, worker) ==
    checkCompletion([s EXCEPT !.idleWorkers = Append(@, worker)])

\* assignWork without the checkCompletion() of its else branch
assignWorkNoCheck(s, worker) ==
    IF Len(s.downloadQueue) > 0
    THEN LET item == Head(s.downloadQueue)
         IN postMessage([s EXCEPT !.downloadQueue = Tail(@),
                                  !.activeWorkers = @ + 1],
                        worker, item.url)
    ELSE [s EXCEPT !.idleWorkers = Append(@, worker)]

\* assignWork(worker)
assignWork(s, worker) ==
    IF Len(s.downloadQueue) > 0
    THEN LET item == Head(s.downloadQueue)
         IN postMessage([s EXCEPT !.downloadQueue = Tail(@),
                                  !.activeWorkers = @ + 1],
                        worker, item.url)
    ELSE checkCompletion([s EXCEPT !.idleWorkers = Append(@, worker)])

\* workers.forEach(assignWork)
RECURSIVE workersForEachAssignWork(_, _)
workersForEachAssignWork(s, i) ==
    IF i > CONCURRENCY THEN s
    ELSE workersForEachAssignWork(assignWork(s, i), i + 1)

\* networkLog.push of a placeholder entry that names the URL itself as its
\* initiator
logQueuedSelf(s, url, initiator) ==
    logPush(s, url, url, 0, "Queued", "unknown", FALSE)

\* networkLog.push of a placeholder entry
logQueued(s, url, initiator) ==
    logPush(s, url, initiator, 0, "Queued", "unknown", FALSE)

\* initialResources.forEach(res => {...}) of the root document
RECURSIVE v2RootForEach(_, _, _)
v2RootForEach(s, initialResources, url) ==
    IF initialResources = <<>> THEN s
    ELSE LET res == Head(initialResources)
         IN IF res \notin s.processedUrls
            THEN v2RootForEach(
                     logQueued(queuePush(processedAdd(s, res), res, url), res, url),
                     Tail(initialResources), url)
            ELSE v2RootForEach(s, Tail(initialResources), url)

\* newResources.forEach(res => {...}) of handleWorkerMessage
RECURSIVE v2ForEach(_, _, _)
v2ForEach(s, newResources, url) ==
    IF newResources = <<>> THEN s
    ELSE LET res == Head(newResources)
             queued == logQueued(queuePush(processedAdd(s, res), res, url), res, url)
             assigned ==
                 IF Len(queued.idleWorkers) > 0
                 THEN assignWork([queued EXCEPT !.idleWorkers = Tail(@)],
                                 Head(queued.idleWorkers))
                 ELSE queued
         IN IF res \notin s.processedUrls
            THEN v2ForEach(assigned, Tail(newResources), url)
            ELSE v2ForEach(s, Tail(newResources), url)

\* networkLog.find(entry => entry.url === url): its index, 0 when absent
logFind(log, url) ==
    IF \E i \in 1..Len(log) : log[i].url = url
    THEN CHOOSE i \in 1..Len(log) :
            /\ log[i].url = url
            /\ \A j \in 1..(i - 1) : log[j].url # url
    ELSE 0

\* the update of a log entry done as a push of a second entry
logAssignPushes(s, url, status, statusText, contentType, isError) ==
    logPush(s, url, "Unknown", status, statusText, contentType, isError)

\* Object.assign(logEntry, {status, statusText, contentType, isError})
logAssign(s, url, status, statusText, contentType, isError) ==
    LET i == logFind(s.networkLog, url)
    IN IF i = 0 THEN s
       ELSE [s EXCEPT !.networkLog[i] =
                [@ EXCEPT !.status = status, !.statusText = statusText,
                          !.contentType = contentType, !.isError = isError]]

\* handleWorkerMessage from its start to the await of blob.text(), or to
\* its end when it does not get there
v2Handle(s, worker, url, fetched, header) ==
    LET contentType == contentTypeOf(header, "application/octet-stream")
        httpStatus == fetched.status
        counted == [s EXCEPT !.activeWorkers = @ - 1,
                             !.inflight = @ \ {[worker |-> worker, url |-> url]}]
        updated == logAssign(counted, url, httpStatus, statusTextOf(httpStatus),
                             contentType, httpStatus >= 400)
        stored == zipFile(updated, url)
        failedStatus == onWarning([updated EXCEPT !.failedUrls = Append(@, url)], url)
        failedWorker ==
            onWarning(
                logAssign([counted EXCEPT !.failedUrls = Append(@, url)], url, 0,
                          "Worker Error",
                          IF logFind(s.networkLog, url) = 0 THEN "unknown"
                          ELSE s.networkLog[logFind(s.networkLog, url)].contentType,
                          TRUE),
                url)
    IN IF fetched.threw THEN assignWork(failedWorker, worker)
       ELSE IF httpStatus >= 400 THEN assignWork(failedStatus, worker)
       ELSE IF isTextLike(contentType)
       THEN [stored EXCEPT !.decoding = @ \cup {[worker |-> worker, url |-> url]}]
       ELSE assignWork(onProgress([stored EXCEPT !.downloadedCount = @ + 1],
                                  "Downloaded"),
                       worker)

\* handleWorkerMessage from the return of findAllResources to its end
v2Resume(s, worker, url, newResources) ==
    LET resumed == [s EXCEPT !.decoding = @ \ {[worker |-> worker, url |-> url]}]
        queued == v2ForEach(resumed, newResources, url)
    IN assignWork(onProgress([queued EXCEPT !.downloadedCount = @ + 1],
                             "Downloaded"),
                  worker)

\* runWorkerDownload from the arrival of the root response to
\* workers.forEach(assignWork)
v2Root(s, fetched, header, refs, anchors) ==
    LET url == s.current.url
        contentType == contentTypeOf(header, "text/html")
        settled == cachedFetchSettle(s, url, fetched.threw)
        logged == logPush(settled, url, "Initial Request", fetched.status,
                          statusTextOf(fetched.status), contentType,
                          ~ResponseOk(fetched.status))
        stored == [zipFile(logged, url) EXCEPT !.downloadedCount = @ + 1]
        initialResources == IF findAllResourcesParses(contentType) THEN refs ELSE <<>>
        queued == v2RootForEach(stored, initialResources, url)
        linked == [queued EXCEPT !.internalLinks =
                      @ \cup findInternalLinksInHtml(anchors, url)]
        started == workersForEachAssignWork(
                       onProgress(linked, "Starting asset download..."), 1)
    IN IF fetched.threw THEN reject(cleanup(settled))
       ELSE IF ~ResponseOk(fetched.status) THEN reject(cleanup(logged))
       ELSE started

\* fetchWebsiteSource with engine v2: runWorkerDownload up to the await of
\* the root's cachedFetch
V2Start ==
    /\ engine = "v2"
    /\ pc = "start"
    /\ LET made == [Fresh EXCEPT !.idleWorkers = [i \in 1..CONCURRENCY |-> i]]
           told == [made EXCEPT !.progress = [message |-> "Fetching main page",
                                              downloaded |-> 0, total |-> 1],
                                !.progressCalls = @ + 1]
           added == processedAdd(told, RootUrl)
           called == cachedFetchCall(added, RootUrl, TRUE)
       IN Commit([called EXCEPT !.pc = "rootFetch",
                                !.current = [url |-> RootUrl,
                                             initiator |-> "Initial Request",
                                             own |-> TRUE]])
    /\ UNCHANGED <<engine, siteVars, firstResult, pxVars, moreVars>>

\* the root's cachedFetch returns or throws
V2Root ==
    /\ engine = "v2"
    /\ pc = "rootFetch"
    /\ \E rsp \in Known(response, RootUrl, ResponseChoices(RootUrl)) :
         LET fetched == fetchWithProxy(rsp.outcomes, 0)
             contentType == contentTypeOf(rsp.header, "text/html")
             ok == ~fetched.threw /\ ResponseOk(fetched.status)
             reads == ok /\ findAllResourcesReads(contentType, RootUrl, unparsable)
         IN \E refs \in (IF reads THEN Known(refsOf, RootUrl, RefChoices)
                                  ELSE {<<>>}) :
            \E anchors \in (IF ok THEN Known(anchorsOf, RootUrl, AnchorChoices)
                                  ELSE {<<>>}) :
              /\ response' = Put(response, RootUrl, rsp)
              /\ refsOf' = IF reads THEN Put(refsOf, RootUrl, refs) ELSE refsOf
              /\ anchorsOf' = IF ok THEN Put(anchorsOf, RootUrl, anchors)
                                    ELSE anchorsOf
              /\ Commit([v2Root(Cur, fetched, rsp.header, refs, anchors)
                            EXCEPT !.pc = IF ok THEN "running" ELSE "failed",
                                   !.current = None])
    /\ UNCHANGED <<engine, unparsable, firstResult, pxVars, moreVars>>

\* a worker answers a request and handleWorkerMessage runs up to its
\* first await
V2Message ==
    /\ engine = "v2"
    /\ ~terminated
    /\ \E req \in inflight :
       \E rsp \in Known(response, req.url, ResponseChoices(req.url)) :
         /\ response' = Put(response, req.url, rsp)
         /\ Commit(v2Handle(Cur, req.worker, req.url,
                            workerFetchWithProxy(rsp.outcomes, 0), rsp.header))
    /\ UNCHANGED <<engine, refsOf, anchorsOf, unparsable, firstResult, pxVars,
                   moreVars>>

\* blob.text() and findAllResources return, and the handler runs to its end
V2Resume ==
    /\ engine = "v2"
    /\ \E h \in decoding :
         LET contentType == contentTypeOf(response[h.url].header,
                                          "application/octet-stream")
             reads == findAllResourcesReads(contentType, h.url, unparsable)
         IN \E refs \in (IF reads THEN Known(refsOf, h.url, RefChoices)
                                  ELSE {<<>>}) :
              /\ refsOf' = IF reads THEN Put(refsOf, h.url, refs) ELSE refsOf
              /\ Commit(v2Resume(Cur, h.worker, h.url, refs))
    /\ UNCHANGED <<engine, response, anchorsOf, unparsable, firstResult, pxVars,
                   moreVars>>

\* ---------------------------------------------------- specification

\* the crawl's variables before fetchWebsiteSource has run
InitCrawl ==
    /\ pc = Fresh.pc
    /\ downloadQueue = Fresh.downloadQueue
    /\ processedUrls = Fresh.processedUrls
    /\ networkLog = Fresh.networkLog
    /\ failedUrls = Fresh.failedUrls
    /\ internalLinks = Fresh.internalLinks
    /\ zip = Fresh.zip
    /\ downloadedCount = Fresh.downloadedCount
    /\ activeWorkers = Fresh.activeWorkers
    /\ idleWorkers = Fresh.idleWorkers
    /\ terminated = Fresh.terminated
    /\ inflight = Fresh.inflight
    /\ decoding = Fresh.decoding
    /\ fetchCache = Fresh.fetchCache
    /\ current = Fresh.current
    /\ promise = Fresh.promise
    /\ result = Fresh.result
    /\ resolveCalls = Fresh.resolveCalls
    /\ progress = Fresh.progress
    /\ progressCalls = Fresh.progressCalls
    /\ discovered = Fresh.discovered
    /\ fetchOrder = Fresh.fetchOrder
    /\ written = Fresh.written
    /\ warnings = Fresh.warnings
    /\ adds = Fresh.adds
    /\ enqueues = Fresh.enqueues
    /\ fetches = Fresh.fetches

InitSite ==
    /\ response = Empty
    /\ refsOf = Empty
    /\ anchorsOf = Empty
    /\ unparsable = {}
    /\ firstResult = None

InitPx ==
    /\ pxOutcomes = None
    /\ pxMain = {}
    /\ pxWorker = {}

\* findAllResources has not been called
InitNoExtract ==
    /\ xContentType = None
    /\ xBody = <<>>
    /\ xImports = FALSE
    /\ xResources = None

\* no request has been made to a proxy
InitNoHeaders ==
    /\ hOptions = None
    /\ hSent = {}

\* the App component as useState sets it up
InitNoApp ==
    /\ phase = "initial"
    /\ scanResult = None
    /\ failedDownloads = <<>>
    /\ appCalls = {}
    /\ appSettled = None

InitExtra ==
    /\ InitNoExtract
    /\ InitNoHeaders
    /\ InitNoApp

\* no retry pass and no cache check is under way
InitNoRetry ==
    /\ rVariant = None
    /\ rPc = "idle"
    /\ rFailedUrls = <<>>
    /\ rZip = Empty
    /\ rZip0 = Empty
    /\ rNetworkLog = <<>>
    /\ rStillFailedUrls = <<>>
    /\ rIndex = 0
    /\ rDownloadedCount = 0
    /\ rInitiatorsToPatch = <<>>
    /\ rPatchIndex = 0
    /\ rFetchCache = [fetchCache |-> Empty, fetches |-> Empty,
                       fetchOrder |-> <<>>]
    /\ rRefetched = Empty
    /\ rLookups = Empty
    /\ rAnswers = Empty
    /\ rPatchFailed = {}
    /\ rProgress = None
    /\ cfCache = Empty
    /\ cfRequests = <<>>
    /\ cfCalls = <<>>

InitMore ==
    /\ InitExtra
    /\ InitNoRetry

\* one crawl of a site, by either engine
Init ==
    /\ engine \in {"v1", "v2"}
    /\ InitCrawl
    /\ InitSite
    /\ InitPx
    /\ InitMore

Next ==
    \/ V1Start
    \/ V1Dequeue
    \/ V1Complete
    \/ V1Return
    \/ V2Start
    \/ V2Root
    \/ V2Message
    \/ V2Resume

Spec == Init /\ [][Next]_vars

\* ------------------------------------- a site with a second HTML page

\* One crawl of a site where c.png is answered with an HTML page that
\* refers back to the root and has anchors of its own; the rest of the site
\* is as in Init.
InitLinks ==
    /\ engine \in {"v1", "v2"}
    /\ InitCrawl
    /\ response = [u \in {UrlC} |-> [outcomes |-> Fallback200, header |-> "text/html"]]
    /\ refsOf = [u \in {UrlC} |-> <<RootUrl>>]
    /\ anchorsOf = [u \in {UrlC} |-> <<PageAbout, PageLogo, PageExt>>]
    /\ unparsable = {}
    /\ firstResult = None
    /\ InitPx
    /\ InitMore

SpecLinks == InitLinks /\ [][Next]_vars

\* ------------------------------- a root with more references than workers

\* One crawl of a site whose root document references a.css, js/b.js and
\* c.png; the rest of the site is as in Init.
InitPool ==
    /\ engine \in {"v1", "v2"}
    /\ InitCrawl
    /\ response = Empty
    /\ refsOf = [u \in {RootUrl} |-> <<UrlA, UrlB, UrlC>>]
    /\ anchorsOf = Empty
    /\ unparsable = {}
    /\ firstResult = None
    /\ InitPx
    /\ InitMore

SpecPool == InitPool /\ [][Next]_vars

\* --------------------- a root with references to one path, three times

\* One crawl of a site whose root document references a.css, the a.css of
\* another origin and a.css with a query string; the rest of the site is as
\* in Init.
InitOffsite ==
    /\ engine \in {"v1", "v2"}
    /\ InitCrawl
    /\ response = Empty
    /\ refsOf = [u \in {RootUrl} |-> <<UrlA, UrlCdnA, UrlAQuery>>]
    /\ anchorsOf = Empty
    /\ unparsable = {}
    /\ firstResult = None
    /\ InitPx
    /\ InitMore

SpecOffsite == InitOffsite /\ [][Next]_vars

\* ------------------------------------ bodies that cannot be parsed

\* One crawl of a site whose root references js/b.js, a script, and c.png,
\* here a manifest served as application/json; the body of either may be
\* one that its parser rejects.  The rest of the site is as in Init.
InitUnparsable ==
    /\ engine \in {"v1", "v2"}
    /\ InitCrawl
    /\ response =
         [u \in {UrlB, UrlC} |->
            [outcomes |-> Fallback200,
             header |-> IF u = UrlB THEN "application/javascript"
                                    ELSE "application/json"]]
    /\ refsOf = [u \in {RootUrl} |-> <<UrlB, UrlC>>]
    /\ anchorsOf = Empty
    /\ unparsable \in SUBSET {UrlB, UrlC}
    /\ firstResult = None
    /\ InitPx
    /\ InitMore

SpecUnparsable == InitUnparsable /\ [][Next]_vars

\* ------------------------------------------- sites with reference cycles

\* Reference graphs with self-references (a.css, js/b.js, the root), a cycle
\* through the root and a cycle of a.css and js/b.js
CyclicSites ==
    {[u \in {RootUrl, UrlA, UrlB} |->
        CASE u = RootUrl -> r [] u = UrlA -> a [] OTHER -> b] :
       r \in {<<UrlA, UrlB>>, <<RootUrl, UrlC>>},
       a \in {<<RootUrl, UrlA>>, <<UrlB, UrlC>>},
       b \in {<<UrlC, UrlA>>, <<UrlB>>}}

\* One crawl of a site whose documents reference each other in cycles; what
\* the proxies answer for each URL is as in Init.
InitLive ==
    /\ engine \in {"v1", "v2"}
    /\ InitCrawl
    /\ response = Empty
    /\ refsOf \in CyclicSites
    /\ anchorsOf = Empty
    /\ unparsable = {}
    /\ firstResult = None
    /\ InitPx
    /\ InitMore

\* Every fetch settles, every blob.text() settles and the event loop runs
\* the continuation of a settled promise: a step that can be taken is taken.
SpecLive == InitLive /\ [][Next]_vars /\ WF_vars(Next)

\* ------------------------------------- the two engines on the same site

\* The caller starts a v2 crawl of the site the finished v1 crawl has seen:
\* fetchWebsiteSource clears the cache and sets up new locals.
Rerun ==
    /\ engine = "v1"
    /\ pc = "done"
    /\ engine' = "v2"
    /\ firstResult' = result
    /\ Commit(Fresh)
    /\ UNCHANGED <<siteVars, pxVars, moreVars>>

InitBoth ==
    /\ engine = "v1"
    /\ InitCrawl
    /\ InitSite
    /\ InitPx
    /\ InitMore

NextBoth ==
    \/ V1Start
    \/ V1Dequeue
    \/ V1Complete
    \/ V1Return
    \/ Rerun
    \/ V2Start
    \/ V2Root
    \/ V2Message
    \/ V2Resume

SpecBoth == InitBoth /\ [][NextBoth]_vars

\* ------------------------------------------ the transport on its own

\* fetchWithProxy(url, options) is called for a URL the proxies answer
\* with pxOutcomes
PxCallMain ==
    /\ pxMain = {}
    /\ pxMain' = {fetchWithProxy(pxOutcomes, 0)}
    /\ UNCHANGED <<engine, crawlVars, siteVars, firstResult, pxOutcomes, pxWorker, moreVars>>

\* the worker's fetchWithProxy(url, options) is called for the same URL
PxCallWorker ==
    /\ pxWorker = {}
    /\ pxWorker' = {workerFetchWithProxy(pxOutcomes, 0)}
    /\ UNCHANGED <<engine, crawlVars, siteVars, firstResult, pxOutcomes, pxMain, moreVars>>

InitProxy ==
    /\ engine = "v1"
    /\ InitCrawl
    /\ InitSite
    /\ pxOutcomes \in AllOutcomes
    /\ pxMain = {}
    /\ pxWorker = {}
    /\ InitMore

NextProxy ==
    \/ PxCallMain
    \/ PxCallWorker

SpecProxy == InitProxy /\ [][NextProxy]_vars

\* ------------------------------------------------ text of URLs and bodies

\* A string is the sequence of its pieces: the pieces of one path segment
\* (name, '.min', extension)
SegTokens(seg) ==
    CASE seg = "a.css" -> <<"a", ".css">>
      [] seg = "b.js" -> <<"b", ".js">>
      [] seg = "c.png" -> <<"c", ".png">>
      [] seg = "d.js" -> <<"d", ".js">>
      [] seg = "lib.min.js" -> <<"lib", ".min", ".js">>
      [] seg = "data:x" -> <<"data:", "x">>
      [] OTHER -> <<seg>>

\* new URL(u).pathname as text: '/' before every segment, '/' alone when
\* there is none
RECURSIVE pathnameText(_)
pathnameText(pathname) ==
    IF pathname = <<>> THEN <<"/">>
    ELSE <<"/">> \o SegTokens(Head(pathname)) \o
         (IF Tail(pathname) = <<>> THEN <<>> ELSE pathnameText(Tail(pathname)))

\* the URL string itself
href(u) == <<URL(u).origin>> \o pathnameText(URL(u).pathname)

\* text.substring(n)
substring(text, n) == SubSeq(text, n + 1, Len(text))

\* text.lastIndexOf('/'), counted from 0, or -1
lastIndexOf(text, piece) ==
    LET at == {i \in 1..Len(text) : text[i] = piece}
    IN IF at = {} THEN -1 ELSE (CHOOSE i \in at : \A j \in at : j <= i) - 1

\* url.split('/').pop() and failedUrl.substring(failedUrl.lastIndexOf('/') + 1)
fileNameOf(u) == substring(href(u), lastIndexOf(href(u), "/") + 1)

\* text.split('.min')[0]
splitMinFirst(text) ==
    LET at == {i \in 1..Len(text) : text[i] = ".min"}
    IN IF at = {} THEN text
       ELSE SubSeq(text, 1, (CHOOSE i \in at : \A j \in at : i <= j) - 1)

\* whether `part` stands in `text` at position i (from 1)
matchesAt(text, part, i) ==
    /\ i + Len(part) - 1 <= Len(text)
    /\ SubSeq(text, i, i + Len(part) - 1) = part

\* text.includes(part)
textIncludes(text, part) == \E i \in 1..(Len(text) + 1) : matchesAt(text, part, i)

\* text.startsWith('http'): the first piece begins with these letters
startsWithHttp(text) ==
    /\ text # <<>>
    /\ Head(text) \in {"https://cdn.net", "http://cdn.net", "http 404 for "}

\* /\.(js|css)$/i.test(url) && !url.includes('data:')
isCommonLib(u) ==
    /\ href(u)[Len(href(u))] \in {".js", ".css"}
    /\ "data:" \notin Range(href(u))

\* findCdnUrl(failedUrl) when the collaborator's trimmed answer is `answer`:
\* the alternate URL, or <<>> for null
findCdnUrl(failedUrl, answer) ==
    LET fileName == fileNameOf(failedUrl)
    IN IF fileName = <<>> THEN <<>>
       ELSE IF startsWithHttp(answer) /\ textIncludes(answer, splitMinFirst(fileName))
            THEN answer
            ELSE <<>>

\* What the collaborator may answer for a failed URL: the sentinel, a CDN
\* URL holding the file name, a CDN URL of another file, a CDN URL holding
\* only the name before '.min', a sentence that begins with 'http' and
\* names the file, and a sentence that quotes a URL.
NotFoundAnswer == <<"NOT_FOUND">>
CdnAnswer(u) == <<"https://cdn.net", "/">> \o fileNameOf(u)
OtherFileAnswer == <<"https://cdn.net", "/", "other", ".js">>
StemAnswer(u) == <<"https://cdn.net", "/">> \o splitMinFirst(fileNameOf(u)) \o <<".js">>
SentenceAnswer(u) == <<"http 404 for ">> \o fileNameOf(u)
QuotedAnswer(u) == <<"Try ", "https://cdn.net", "/">> \o fileNameOf(u)

AnswerChoices(u) ==
    {NotFoundAnswer, CdnAnswer(u), OtherFileAnswer, StemAnswer(u),
     SentenceAnswer(u), QuotedAnswer(u)}

\* an http:// or https:// URL
isHttpUrl(text) ==
    /\ text # <<>>
    /\ Head(text) \in {"https://cdn.net", "http://cdn.net"}

\* ------------------------------------------- the retry / recovery passes

\* the longest failedUrls list handed to a retry pass
MaxFailed == 2

\* The crawl a retry pass follows: the root page references a.css, js/b.js,
\* c.png and a frame of another host; a.css references lib.min.js and
\* data:x/d.js and, when `shared`, c.png as well.  URLs in discovery order.
CrawlOrder == <<RootUrl, UrlA, UrlB, UrlC, UrlFrame, UrlMin, UrlData>>
FailedCandidates == <<UrlB, UrlC, UrlFrame, UrlMin, UrlData>>

\* the document whose body made the crawl enqueue u
InitiatorOf(u) ==
    CASE u = RootUrl -> "Initial Request"
      [] u \in {UrlA, UrlB, UrlC, UrlFrame} -> RootUrl
      [] OTHER -> UrlA

\* the body of a fetched URL as text
BodyText(u, shared) ==
    CASE u = RootUrl ->
           <<"<link href=">> \o substring(pathnameText(URL(UrlA).pathname), 1)
             \o <<"><script src=">> \o href(UrlB)
             \o <<"><img src=">> \o pathnameText(URL(UrlC).pathname)
             \o <<"><iframe src=">> \o href(UrlFrame) \o <<">">>
      [] u = UrlA ->
           <<"@import '">> \o fileNameOf(UrlMin)
             \o <<"'; @import '">> \o href(UrlData)
             \o (IF shared THEN <<"'; url(">> \o fileNameOf(UrlC) \o <<")">>
                 ELSE <<"';">>)
      [] OTHER -> <<"(bytes)">>

HeaderOf(u) ==
    CASE u = RootUrl -> "text/html"
      [] u = UrlA -> "text/css"
      [] u = UrlC -> "image/png"
      [] u = UrlFrame -> "text/html"
      [] OTHER -> "application/javascript"

\* the entry the v1 crawl leaves in the log for u
CrawlEntry(u, failed) ==
    IF failed
    THEN [url |-> u, initiator |-> InitiatorOf(u), status |-> 0,
          statusText |-> "Download Failed", contentType |-> "unknown",
          isError |-> TRUE]
    ELSE [url |-> u, initiator |-> InitiatorOf(u), status |-> 200,
          statusText |-> "OK", contentType |-> HeaderOf(u), isError |-> FALSE]

\* the log and the archive the crawl returns when the URLs of `failed`
\* failed: entries in discovery order, zip.file(relativePath, content) for
\* every URL fetched
RECURSIVE CrawlLog(_, _)
CrawlLog(order, failed) ==
    IF order = <<>> THEN <<>>
    ELSE <<CrawlEntry(Head(order), Head(order) \in failed)>>
         \o CrawlLog(Tail(order), failed)

RECURSIVE CrawlZip(_, _, _)
CrawlZip(order, failed, shared) ==
    IF order = <<>> THEN Empty
    ELSE LET u == order[Len(order)]
             before == CrawlZip(SubSeq(order, 1, Len(order) - 1), failed, shared)
         IN IF u \in failed THEN before
            ELSE Put(before, relativePath(u),
                     [of |-> u, from |-> "crawl", text |-> BodyText(u, shared)])

\* the retry pass's variables as one value
RCur ==
    [variant |-> rVariant, pc |-> rPc, failedUrls |-> rFailedUrls, zip |-> rZip,
     networkLog |-> rNetworkLog, stillFailedUrls |-> rStillFailedUrls,
     index |-> rIndex, downloadedCount |-> rDownloadedCount,
     initiatorsToPatch |-> rInitiatorsToPatch, patchIndex |-> rPatchIndex,
     cache |-> rFetchCache, refetched |-> rRefetched, lookups |-> rLookups,
     answers |-> rAnswers, patchFailed |-> rPatchFailed, progress |-> rProgress]

RCommit(r) ==
    /\ rVariant' = r.variant
    /\ rPc' = r.pc
    /\ rFailedUrls' = r.failedUrls
    /\ rZip' = r.zip
    /\ rNetworkLog' = r.networkLog
    /\ rStillFailedUrls' = r.stillFailedUrls
    /\ rIndex' = r.index
    /\ rDownloadedCount' = r.downloadedCount
    /\ rInitiatorsToPatch' = r.initiatorsToPatch
    /\ rPatchIndex' = r.patchIndex
    /\ rFetchCache' = r.cache
    /\ rRefetched' = r.refetched
    /\ rLookups' = r.lookups
    /\ rAnswers' = r.answers
    /\ rPatchFailed' = r.patchFailed
    /\ rProgress' = r.progress

\* onProgress({message, downloaded, total}) of a retry pass
retryProgress(r, message) == [r EXCEPT !.progress = message]

\* networkLog.findIndex(entry => entry.url === url), from 1; 0 for -1
findIndex(log, url) ==
    LET at == {i \in 1..Len(log) : log[i].url = url}
    IN IF at = {} THEN 0 ELSE CHOOSE i \in at : \A j \in at : i <= j

\* the update of the log entry of a recovered URL without isError: false
logRecoveredKeepsError(r, url, status, statusText, contentType) ==
    LET logIndex == findIndex(r.networkLog, url)
    IN IF logIndex = 0 THEN r
       ELSE [r EXCEPT !.networkLog[logIndex] =
                [@ EXCEPT !.status = status, !.statusText = statusText,
                          !.contentType = contentType]]

\* networkLog[logIndex] = {...networkLog[logIndex], status, statusText,
\* contentType, isError: false} when logIndex > -1
logRecovered(r, url, status, statusText, contentType) ==
    LET logIndex == findIndex(r.networkLog, url)
    IN IF logIndex = 0 THEN r
       ELSE [r EXCEPT !.networkLog[logIndex] =
                [@ EXCEPT !.status = status, !.statusText = statusText,
                          !.contentType = contentType, !.isError = FALSE]]

\* new URL(url).pathname.substring(1) || new URL(url).hostname + '.html'
retryRelativePath(u) ==
    IF URL(u).pathname = <<>> THEN <<URL(u).hostname \o ".html">>
    ELSE URL(u).pathname

\* zip.file(relativePath, content) of the plain retry
retryZipFile(r, url, from) ==
    [r EXCEPT !.zip = Put(@, retryRelativePath(url),
                          [of |-> url, from |-> from, text |-> <<"(bytes)">>])]

\* cachedFetch(url, {}, true): the cache is bypassed and replaced, a failure
\* evicts the entry
retryCachedFetch(r, url, fetched) ==
    [r EXCEPT !.cache = cachedFetchSettle(cachedFetchCall(@, url, TRUE), url,
                                          fetched.threw),
              !.refetched = Put(@, url, IF fetched.threw THEN "failed" ELSE "ok")]

\* await findCdnUrl(url): the call is counted and its answer kept
retryLookup(r, url, env) ==
    [r EXCEPT !.lookups = Bump(@, url),
              !.answers = Put(@, url,
                  IF env.aiThrew
                  THEN [threw |-> TRUE, answer |-> <<>>, cdnUrl |-> <<>>]
                  ELSE [threw |-> FALSE, answer |-> env.answer,
                        cdnUrl |-> findCdnUrl(url, env.answer)])]

\* What the world does during one iteration of a retry loop: the proxies'
\* answers to the forced re-fetch, whether the collaborator call throws, its
\* answer, what fetch(cdnUrl) gives (0: it throws), and whether reading the
\* blob (FileReader) fails.
RetryEnv(u) ==
    [outcomes : {Fallback200, Unreachable}, aiThrew : BOOLEAN,
     answer : AnswerChoices(u), cdnStatus : {200, 404, 0},
     readFails : BOOLEAN]

\* if (!success) { stillFailedUrls.push(url); networkLog[logIndex].statusText += ... }
stillFailed(r, url, message) ==
    LET logIndex == findIndex(r.networkLog, url)
        pushed == [r EXCEPT !.stillFailedUrls = Append(@, url)]
    IN IF logIndex = 0 THEN pushed
       ELSE [pushed EXCEPT !.networkLog[logIndex].statusText =
                @ \o " | Retry failed: " \o message]

\* the body of if (isCommonLib) in retryFailedDownloads: findCdnUrl, then
\* fetch(cdnUrl) and the log and archive updates
plainCdnLookup(r, url, env) ==
    LET asked == retryLookup(r, url, env)
        cdnUrl == asked.answers[url].cdnUrl
    IN IF env.aiThrew
       THEN [r |-> asked, success |-> FALSE, lastError |-> "AI error"]
       ELSE IF cdnUrl = <<>>
       THEN [r |-> asked, success |-> FALSE, lastError |-> "All proxies failed."]
       ELSE IF env.cdnStatus = 0
       THEN [r |-> retryProgress(asked, "Found CDN"), success |-> FALSE,
             lastError |-> "Failed to fetch"]
       ELSE IF ~ResponseOk(env.cdnStatus)
       THEN [r |-> retryProgress(asked, "Found CDN"), success |-> FALSE,
             lastError |-> "CDN fetch failed with status: 404"]
       ELSE [r |-> [retryZipFile(
                       logRecovered(retryProgress(asked, "Found CDN"), url,
                                    env.cdnStatus,
                                    statusTextOf(env.cdnStatus) \o " (via AI CDN)",
                                    contentTypeOf(HeaderOf(url),
                                                  "application/octet-stream")),
                       url, "cdn")
                    EXCEPT !.downloadedCount = @ + 1],
             success |-> TRUE, lastError |-> "All proxies failed."]

\* the catch block asking the collaborator whatever the URL ends in
plainCdnAttemptAnyUrl(r, url, env) == plainCdnLookup(r, url, env)

\* the catch block of retryFailedDownloads: the CDN attempt for common libs
plainCdnAttempt(r, url, env) ==
    IF ~isCommonLib(url)
    THEN [r |-> r, success |-> FALSE, lastError |-> "All proxies failed."]
    ELSE plainCdnLookup(r, url, env)

\* one iteration of the for loop of retryFailedDownloads
retryPlainOne(r, url, env) ==
    LET fetched == fetchWithProxy(env.outcomes, 0)
        called == retryCachedFetch(retryProgress(r, "Force retrying"), url, fetched)
        first ==
            IF fetched.threw \/ ~ResponseOk(fetched.status)
            THEN plainCdnAttempt(retryProgress(called, "AI lookup"), url, env)
            ELSE [r |-> [retryZipFile(
                            logRecovered(called, url, fetched.status,
                                         statusTextOf(fetched.status) \o " (Retried)",
                                         contentTypeOf(HeaderOf(url),
                                                       "application/octet-stream")),
                            url, "retry")
                         EXCEPT !.downloadedCount = @ + 1],
                  success |-> TRUE, lastError |-> ""]
        after == IF first.success THEN first.r
                 ELSE stillFailed(first.r, url, first.lastError)
    IN [after EXCEPT !.index = @ + 1]

\* the data URI made of the recovered bytes of a URL
DataUriOf(u) == <<"data:;base64,", u>>

\* [...new Set(networkLog.filter(entry => entry.url === url &&
\* entry.initiator !== 'Initial Request').map(entry => entry.initiator))]
RECURSIVE initiatorUrlsOf(_, _)
initiatorUrlsOf(log, url) ==
    IF log = <<>> THEN <<>>
    ELSE LET before == initiatorUrlsOf(SubSeq(log, 1, Len(log) - 1), url)
             entry == log[Len(log)]
         IN IF /\ entry.url = url
               /\ entry.initiator # "Initial Request"
               /\ entry.initiator \notin Range(before)
            THEN Append(before, entry.initiator)
            ELSE before

\* initiatorsToPatch.get(initiatorUrl).push({failedUrl, dataUri}), after
\* initiatorsToPatch.set(initiatorUrl, []) when the key is new
mapPush(map, initiatorUrl, failedUrl) ==
    LET at == {i \in 1..Len(map) : map[i].initiator = initiatorUrl}
    IN IF at = {}
       THEN Append(map, [initiator |-> initiatorUrl, replacements |-> <<failedUrl>>])
       ELSE LET i == CHOOSE i \in at : TRUE
            IN [map EXCEPT ![i].replacements = Append(@, failedUrl)]

RECURSIVE mapPushAll(_, _, _)
mapPushAll(map, initiatorUrls, failedUrl) ==
    IF initiatorUrls = <<>> THEN map
    ELSE mapPushAll(mapPush(map, Head(initiatorUrls), failedUrl),
                    Tail(initiatorUrls), failedUrl)

\* the catch block of the first loop of retryFailedDownloadsAsDataURI: the
\* blob's origin, or None
inlineCdnAttempt(r, url, env) ==
    IF ~isCommonLib(url)
    THEN [r |-> r, blob |-> None]
    ELSE LET asked == retryLookup(retryProgress(r, "AI lookup"), url, env)
             cdnUrl == asked.answers[url].cdnUrl
         IN IF env.aiThrew \/ cdnUrl = <<>>
            THEN [r |-> asked, blob |-> None]
            ELSE IF ~ResponseOk(env.cdnStatus)
            THEN [r |-> retryProgress(asked, "Found CDN"), blob |-> None]
            ELSE [r |-> retryProgress(asked, "Found CDN"), blob |-> "cdn"]

\* one iteration of the first loop of retryFailedDownloadsAsDataURI
retryInlineOne(r, url, env) ==
    LET fetched == fetchWithProxy(env.outcomes, 0)
        called == retryCachedFetch(retryProgress(r, "Resolving"), url, fetched)
        got == IF fetched.threw \/ ~ResponseOk(fetched.status)
               THEN inlineCdnAttempt(called, url, env)
               ELSE [r |-> called, blob |-> "retry"]
        after ==
            IF got.blob = None
            THEN [got.r EXCEPT !.stillFailedUrls = Append(@, url)]
            ELSE IF env.readFails
            THEN [got.r EXCEPT !.stillFailedUrls = Append(@, url)]
            ELSE LET logIndex == findIndex(got.r.networkLog, url)
                     queued ==
                         [got.r EXCEPT !.initiatorsToPatch =
                             mapPushAll(@, initiatorUrlsOf(got.r.networkLog, url), url)]
                     logged ==
                         IF logIndex = 0 THEN queued
                         ELSE [queued EXCEPT !.networkLog[logIndex] =
                                 [@ EXCEPT !.status = 200,
                                           !.statusText = "OK (Resolved as Data URI)",
                                           !.isError = FALSE]]
                 IN [logged EXCEPT !.downloadedCount = @ + 1]
    IN [after EXCEPT !.index = @ + 1]

\* the strings the patch looks for: [failedUrl, pathname,
\* pathname.substring(1), the text after the last '/'], without the empty
\* ones and without repetitions
variationsOf(failedUrl) ==
    LET all == <<href(failedUrl), pathnameText(URL(failedUrl).pathname),
                 substring(pathnameText(URL(failedUrl).pathname), 1),
                 fileNameOf(failedUrl)>>
        keep == {i \in 1..4 : all[i] # <<>> /\ \A j \in 1..(i - 1) : all[j] # all[i]}
    IN [v \in keep |-> all[v]]

\* content.replace(new RegExp(variations.join('|'), 'g'), dataUri): at every
\* position the first variation that matches is replaced
RECURSIVE replaceAll(_, _, _)
replaceAll(content, variations, dataUri) ==
    IF content = <<>> THEN <<>>
    ELSE LET hits == {v \in DOMAIN variations : matchesAt(content, variations[v], 1)}
         IN IF hits = {}
            THEN <<Head(content)>> \o replaceAll(Tail(content), variations, dataUri)
            ELSE LET v == CHOOSE v \in hits : \A w \in hits : v <= w
                 IN dataUri \o replaceAll(substring(content, Len(variations[v])),
                                          variations, dataUri)

\* for (const {failedUrl, dataUri} of replacements) content = content.replace(...)
RECURSIVE patchContent(_, _)
patchContent(content, replacements) ==
    IF replacements = <<>> THEN content
    ELSE patchContent(replaceAll(content, variationsOf(Head(replacements)),
                                 DataUriOf(Head(replacements))),
                      Tail(replacements))

\* one iteration of the second loop with no try around its body: a failed
\* read ends the pass
retryPatchOneNoTry(r, entry, readFails) ==
    LET initiatorPath == relativePath(entry.initiator)
        told == retryProgress(r, "Patching source")
    IN IF initiatorPath \notin DOMAIN told.zip \/ readFails
       THEN [told EXCEPT !.pc = "threw"]
       ELSE [told EXCEPT !.zip[initiatorPath].text =
                            patchContent(@, entry.replacements),
                         !.patchIndex = @ + 1]

\* one iteration of the second loop of retryFailedDownloadsAsDataURI
retryPatchOne(r, entry, readFails) ==
    LET initiatorPath == relativePath(entry.initiator)
        told == retryProgress(r, "Patching source")
        next == [told EXCEPT !.patchIndex = @ + 1]
    IN IF initiatorPath \notin DOMAIN told.zip
       THEN [next EXCEPT !.patchFailed = @ \cup {entry.initiator}]
       ELSE IF readFails
       THEN [next EXCEPT !.patchFailed = @ \cup {entry.initiator}]
       ELSE [next EXCEPT !.zip[initiatorPath].text =
                            patchContent(@, entry.replacements)]

\* retryFailedDownloads: one iteration of its loop
RetryPlainStep ==
    /\ rVariant = "plain"
    /\ rPc = "loop"
    /\ rIndex <= Len(rFailedUrls)
    /\ \E env \in RetryEnv(rFailedUrls[rIndex]) :
          RCommit(retryPlainOne(RCur, rFailedUrls[rIndex], env))
    /\ UNCHANGED <<engine, crawlVars, siteVars, firstResult, pxVars, rZip0, cacheVars,
                   extractVars, headerVars, appVars>>

\* retryFailedDownloadsAsDataURI: one iteration of its first loop
RetryInlineStep ==
    /\ rVariant = "inline"
    /\ rPc = "loop"
    /\ rIndex <= Len(rFailedUrls)
    /\ \E env \in RetryEnv(rFailedUrls[rIndex]) :
          RCommit(retryInlineOne(RCur, rFailedUrls[rIndex], env))
    /\ UNCHANGED <<engine, crawlVars, siteVars, firstResult, pxVars, rZip0, cacheVars,
                   extractVars, headerVars, appVars>>

\* retryFailedDownloadsAsDataURI: one iteration of its second loop
RetryPatchStep ==
    /\ rVariant = "inline"
    /\ rPc = "loop"
    /\ rIndex > Len(rFailedUrls)
    /\ rPatchIndex <= Len(rInitiatorsToPatch)
    /\ \E readFails \in BOOLEAN :
          RCommit(retryPatchOne(RCur, rInitiatorsToPatch[rPatchIndex], readFails))
    /\ UNCHANGED <<engine, crawlVars, siteVars, firstResult, pxVars, rZip0, cacheVars,
                   extractVars, headerVars, appVars>>

\* the last onProgress call and the return of {zip, networkLog, stillFailedUrls}
RetryReturn ==
    /\ rPc = "loop"
    /\ rIndex > Len(rFailedUrls)
    /\ rVariant = "inline" => rPatchIndex > Len(rInitiatorsToPatch)
    /\ RCommit([retryProgress(RCur, "complete") EXCEPT !.pc = "done"])
    /\ UNCHANGED <<engine, crawlVars, siteVars, firstResult, pxVars, rZip0, cacheVars,
                   extractVars, headerVars, appVars>>

\* The arguments of a retry pass: the failed list, the archive and the log
\* of a finished crawl in which some of the resources failed.
RetryInputs ==
    {[failed |-> f, shared |-> s] :
        f \in SubSeqs(FailedCandidates, MaxFailed) \ {<<>>}, s \in BOOLEAN}

\* a retry pass is called with the result of a crawl
InitRetryCall ==
    /\ InitCrawl
    /\ InitSite
    /\ InitPx
    /\ rVariant \in {"plain", "inline"}
    /\ \E in \in RetryInputs :
          /\ rFailedUrls = in.failed
          /\ rZip = CrawlZip(CrawlOrder, Range(in.failed), in.shared)
          /\ rNetworkLog = CrawlLog(CrawlOrder, Range(in.failed))
    /\ rZip0 = rZip
    /\ rPc = "loop"
    /\ rStillFailedUrls = <<>>
    /\ rIndex = 1
    /\ rDownloadedCount = 0
    /\ rInitiatorsToPatch = <<>>
    /\ rPatchIndex = 1
    /\ rFetchCache = [fetchCache |-> Empty, fetches |-> Empty,
                       fetchOrder |-> <<>>]
    /\ rRefetched = Empty
    /\ rLookups = Empty
    /\ rAnswers = Empty
    /\ rPatchFailed = {}
    /\ rProgress = None
    /\ cfCache = Empty
    /\ cfRequests = <<>>
    /\ cfCalls = <<>>
    /\ InitExtra

InitRetry ==
    /\ engine = "v1"
    /\ InitRetryCall

NextRetry ==
    \/ RetryPlainStep
    \/ RetryInlineStep
    \/ RetryPatchStep
    \/ RetryReturn

SpecRetry == InitRetry /\ [][NextRetry]_vars

\* ------------------------------------------------- a pass of any kind

\* One call of the pipeline: fetchWebsiteSource with either engine, or,
\* with no crawl under way, one of the two retry passes.
InitPass ==
    \/ Init
    \/ /\ engine = None
       /\ InitRetryCall

NextPass ==
    \/ Next
    \/ NextRetry

SpecPass == InitPass /\ [][NextPass]_vars

\* ------------------------------------------------ the fetch cache alone

\* the number of cachedFetch calls made
MaxCalls == 4

CacheUrls == {UrlA, UrlB}

\* the cache check's variables as one value
CfCur == [cache |-> cfCache, requests |-> cfRequests, calls |-> cfCalls]

CfCommit(c) ==
    /\ cfCache' = c.cache
    /\ cfRequests' = c.requests
    /\ cfCalls' = c.calls

\* the requests for `url` that are pending or have succeeded
LiveRequests(c, url) ==
    {id \in 1..Len(c.requests) :
        c.requests[id].url = url /\ c.requests[id].state # "rejected"}

\* what a call remembers: the request whose promise it awaits, whether it
\* issued that request itself, and what it found when it was made (the
\* cached request, the requests not rejected, rejected and fulfilled so far)
CallRecord(c, url, forceFresh, request, own) ==
    [url |-> url, forceFresh |-> forceFresh, request |-> request, own |-> own,
     cached |-> IF url \in DOMAIN c.cache THEN c.cache[url] ELSE 0,
     live |-> LiveRequests(c, url),
     rejected |-> {id \in 1..Len(c.requests) :
                     c.requests[id].url = url /\ c.requests[id].state = "rejected"},
     fulfilled |-> {id \in LiveRequests(c, url) : c.requests[id].state = "fulfilled"}]

\* cachedFetch that never looks into the cache
cachedFetchNoCache(c, url, forceFresh) ==
    LET id == Len(c.requests) + 1
    IN [c EXCEPT !.requests = Append(@, [url |-> url, state |-> "pending"]),
                 !.cache = Put(@, url, id),
                 !.calls = Append(@, CallRecord(c, url, forceFresh, id, TRUE))]

\* cachedFetch that takes forceFresh for false
cachedFetchNeverFresh(c, url, forceFresh) ==
    IF url \in DOMAIN c.cache
    THEN [c EXCEPT !.calls =
             Append(@, CallRecord(c, url, forceFresh, c.cache[url], FALSE))]
    ELSE cachedFetchNoCache(c, url, forceFresh)

\* cachedFetch(url, options, forceFresh) up to its await: a cached promise
\* is awaited unless forceFresh; otherwise fetchWithProxy is called and its
\* promise put in the cache
cachedFetch(c, url, forceFresh) ==
    IF url \in DOMAIN c.cache /\ ~forceFresh
    THEN [c EXCEPT !.calls =
             Append(@, CallRecord(c, url, forceFresh, c.cache[url], FALSE))]
    ELSE LET id == Len(c.requests) + 1
         IN [c EXCEPT !.requests = Append(@, [url |-> url, state |-> "pending"]),
                      !.cache = Put(@, url, id),
                      !.calls = Append(@, CallRecord(c, url, forceFresh, id, TRUE))]

\* the catch of cachedFetch without its fetchCache.delete(url)
cachedFetchSettledKeeps(c, id, ok) ==
    [c EXCEPT !.requests[id].state = IF ok THEN "fulfilled" ELSE "rejected"]

\* the promise of request `id` settles; the call that issued it goes on
\* after its await: return response.clone(), or fetchCache.delete(url) and
\* throw
cachedFetchSettled(c, id, ok) ==
    IF ok
    THEN [c EXCEPT !.requests[id].state = "fulfilled"]
    ELSE [c EXCEPT !.requests[id].state = "rejected",
                   !.cache = [x \in DOMAIN @ \ {c.requests[id].url} |-> @[x]]]

\* a call still waiting for its promise
Waiting(call) == cfRequests[call.request].state = "pending"

\* A caller calls cachedFetch.  The forced calls of the program are made
\* one after the other (the loops of the retry passes await each call, the
\* v2 crawl makes one before anything else), so none starts while a call is
\* waiting.
CfCall ==
    /\ Len(cfCalls) < MaxCalls
    /\ \E url \in CacheUrls, forceFresh \in BOOLEAN :
          /\ forceFresh => \A i \in 1..Len(cfCalls) : ~Waiting(cfCalls[i])
          /\ CfCommit(cachedFetch(CfCur, url, forceFresh))
    /\ UNCHANGED <<engine, crawlVars, siteVars, firstResult, pxVars, retryVars,
                   extractVars, headerVars, appVars>>

\* fetchWithProxy returns a response or throws
CfSettle ==
    /\ \E id \in 1..Len(cfRequests), ok \in BOOLEAN :
          /\ cfRequests[id].state = "pending"
          /\ CfCommit(cachedFetchSettled(CfCur, id, ok))
    /\ UNCHANGED <<engine, crawlVars, siteVars, firstResult, pxVars, retryVars,
                   extractVars, headerVars, appVars>>

InitCache ==
    /\ engine = "v1"
    /\ InitCrawl
    /\ InitSite
    /\ InitPx
    /\ InitMore

NextCache ==
    \/ CfCall
    \/ CfSettle

SpecCache == InitCache /\ [][NextCache]_vars

\* A pass calls cachedFetch with forceFresh while a call of another pass is
\* still waiting: fetchCache is one map of the module, and the App starts a
\* retry pass (handleRetry, after loadSession) while the crawl it began
\* earlier has not returned.
CfCallWhilePending ==
    /\ Len(cfCalls) < MaxCalls
    /\ \E url \in CacheUrls :
          /\ \E i \in 1..Len(cfCalls) : Waiting(cfCalls[i])
          /\ CfCommit(cachedFetch(CfCur, url, TRUE))
    /\ UNCHANGED <<engine, crawlVars, siteVars, firstResult, pxVars, retryVars,
                   extractVars, headerVars, appVars>>

NextOverlap ==
    \/ CfCall
    \/ CfCallWhilePending
    \/ CfSettle

SpecOverlap == InitCache /\ [][NextOverlap]_vars

\* ------------------------------------------- the Resource Extractor alone

\* the largest number of references in one content
MaxBody == 2

\* A reference as it is written in a content, piece by piece: white space,
\* a scheme as written, and the rest.
Space == " "
SchemePieces == {"data:", "DATA:", "blob:", "BLOB:", "https:"}

RefRelative == <<"a.css">>
RefAbsolute == <<"https:", "//cdn.net/b.js">>
RefData == <<"data:", "image/png;base64,AAAA">>
RefBlob == <<"blob:", "https://x.com/uuid">>
RefDataSpaced == <<Space, "data:", "image/png;base64,AAAA">>
RefDataUpper == <<"DATA:", "image/png;base64,AAAA">>
RefEmpty == <<>>
RefInvalid == <<"https:", "//[">>

\* the references a content can hold, in the order of the content
RawRefs ==
    <<RefRelative, RefAbsolute, RefData, RefBlob, RefDataSpaced, RefDataUpper,
      RefEmpty, RefInvalid>>

\* the href of the base URL https://x.com/
BaseHref == <<"https:", "//x.com/">>

\* the sequences over the elements of `universe` of at most n elements
RECURSIVE SeqsUpTo(_, _)
SeqsUpTo(universe, n) ==
    IF n = 0 THEN {<<>>}
    ELSE LET shorter == SeqsUpTo(universe, n - 1)
         IN shorter \cup {Append(s, x) : s \in shorter, x \in universe}

\* String.prototype.startsWith
startsWith(text, piece) == text # <<>> /\ Head(text) = piece

\* String.prototype.trim; the URL parser strips the same leading and
\* trailing spaces from its input
RECURSIVE trim(_)
trim(text) ==
    IF text = <<>> THEN text
    ELSE IF Head(text) = Space THEN trim(Tail(text))
    ELSE IF text[Len(text)] = Space THEN trim(SubSeq(text, 1, Len(text) - 1))
    ELSE text

\* the URL parser keeps a scheme in lower case
toLowerCase(piece) ==
    CASE piece = "DATA:" -> "data:"
      [] piece = "BLOB:" -> "blob:"
      [] OTHER -> piece

\* new URL(url, baseUrl).href, or the throw of the constructor
newURL(url, baseUrl) ==
    LET input == trim(url)
    IN IF input # <<>> /\ Head(input) \in SchemePieces
       THEN IF Tail(input) = <<"//[">>
            THEN [threw |-> TRUE, href |-> <<>>]
            ELSE [threw |-> FALSE, href |-> <<toLowerCase(Head(input))>> \o Tail(input)]
       ELSE [threw |-> FALSE, href |-> baseUrl \o input]

\* resources.add(href): a Set keeps the order of first insertion
setAdd(resources, value) ==
    IF value \in Range(resources) THEN resources ELSE Append(resources, value)

\* addResource(url, baseUrl, resources)
addResource(url, baseUrl, resources) ==
    IF url # <<>> /\ ~startsWith(url, "data:") /\ ~startsWith(url, "blob:")
    THEN LET parsed == newURL(url, baseUrl)
         IN IF parsed.threw THEN resources ELSE setAdd(resources, parsed.href)
    ELSE resources

\* URL_LIKE_STRING_REGEX.test(text): '//' at the start, after 'http:' or
\* 'https:' or not, or './' or a slash before another character anywhere
URL_LIKE_STRING_REGEX(text) ==
    \E i \in 1..Len(text) :
        text[i] \in {"//cdn.net/b.js", "image/png;base64,AAAA",
                     "https://x.com/uuid", "//["}

\* POTENTIAL_ASSET_EXTENSIONS.test(text): the text ends in a listed extension
endsInAssetExtension(text) ==
    text # <<>> /\ text[Len(text)] \in {"a.css", "//cdn.net/b.js"}

\* findResourcesInHtml, findResourcesInCss, findResourcesInManifest: every
\* attribute value, url() argument or src member goes to addResource as
\* written
RECURSIVE findResourcesAsWritten(_, _, _)
findResourcesAsWritten(content, baseUrl, resources) ==
    IF content = <<>> THEN resources
    ELSE findResourcesAsWritten(Tail(content), baseUrl,
                                addResource(Head(content), baseUrl, resources))

\* findResourcesInJsAst: the source of an import() goes to addResource as
\* written; a string literal is trimmed and goes there when it looks like a
\* URL and ends in an asset extension
RECURSIVE findResourcesInJsAst(_, _, _, _)
findResourcesInJsAst(jsContent, imports, baseUrl, resources) ==
    IF jsContent = <<>> THEN resources
    ELSE LET value == Head(jsContent)
             potentialUrl == trim(value)
             imported == IF imports THEN addResource(value, baseUrl, resources)
                                    ELSE resources
             walked ==
                 IF /\ URL_LIKE_STRING_REGEX(potentialUrl)
                    /\ endsInAssetExtension(potentialUrl)
                 THEN addResource(potentialUrl, baseUrl, imported)
                 ELSE imported
         IN findResourcesInJsAst(Tail(jsContent), imports, baseUrl, walked)

\* findAllResources(contentType, content, baseUrl)
findAllResources(contentType, content, imports, baseUrl) ==
    IF includes(contentType, "html")
    THEN findResourcesAsWritten(content, baseUrl, <<>>)
    ELSE IF includes(contentType, "css")
    THEN findResourcesAsWritten(content, baseUrl, <<>>)
    ELSE IF \/ includes(contentType, "javascript")
            \/ includes(contentType, "application/ecmascript")
    THEN findResourcesInJsAst(content, imports, baseUrl, <<>>)
    ELSE IF includes(contentType, "json")
    THEN findResourcesAsWritten(content, baseUrl, <<>>)
    ELSE <<>>

\* the content types findAllResources is called with
ExtractContentTypes ==
    {"text/html", "text/css", "application/javascript", "application/json",
     "image/png"}

\* findAllResources is called and returns
FindAllResources ==
    /\ xResources = None
    /\ xContentType # None
    /\ xResources' = findAllResources(xContentType, xBody, xImports, BaseHref)
    /\ UNCHANGED <<engine, crawlVars, siteVars, firstResult, pxVars, retryVars,
                   cacheVars, xContentType, xBody, xImports, headerVars, appVars>>

InitExtract ==
    /\ engine = "v1"
    /\ InitCrawl
    /\ InitSite
    /\ InitPx
    /\ InitNoRetry
    /\ InitNoHeaders
    /\ InitNoApp
    /\ xContentType \in ExtractContentTypes
    /\ xBody \in SeqsUpTo(Range(RawRefs), MaxBody)
    /\ xImports \in (IF xContentType = "application/javascript" THEN BOOLEAN
                                                                 ELSE {FALSE})
    /\ xResources = None

NextExtract == FindAllResources

SpecExtract == InitExtract /\ [][NextExtract]_vars

\* --------------------------------------------- the headers of a request

\* the options a caller hands to fetchWebsiteSource: {headers, userAgent}
OptionChoices ==
    {[headers |-> Empty, userAgent |-> ""],
     [headers |-> [n \in {"Cookie"} |-> "sid=1"], userAgent |-> ""],
     [headers |-> Empty, userAgent |-> "Bot/1.0"],
     [headers |-> [n \in {"Cookie"} |-> "sid=1"], userAgent |-> "Bot/1.0"],
     [headers |-> [n \in {"User-Agent"} |-> "Old/0.1"], userAgent |-> "Bot/1.0"]}

\* what the proxies answer to the requests for the URL
HeaderOutcomes == {Fallback200, NotFoundThen200, Unreachable}

\* fetchOptions = {headers: {...options.headers}}, with User-Agent set when
\* options.userAgent is not empty
fetchOptionsOf(options) ==
    [headers |-> IF options.userAgent # ""
                 THEN Put(options.headers, "User-Agent", options.userAgent)
                 ELSE options.headers]

\* the options {} of the retry passes
NoOptions == [headers |-> Empty]

\* fetch(proxiedUrl, options) for each proxy of `contacted`
fetchEach(sent, by, contacted, options) ==
    sent \cup {[by |-> by, proxy |-> contacted[i], headers |-> options.headers] :
                 i \in 1..Len(contacted)}

Asked(by) == \E req \in hSent : req.by = by

\* the sequential engine: cachedFetch(currentUrl, fetchOptions)
HdrV1Fetch ==
    /\ ~Asked("v1")
    /\ hSent' = fetchEach(hSent, "v1", fetchWithProxy(pxOutcomes, 0).contacted,
                          fetchOptionsOf(hOptions))
    /\ UNCHANGED <<engine, crawlVars, siteVars, firstResult, pxVars, retryVars,
                   cacheVars, extractVars, hOptions, appVars>>

\* the worker-pool engine: cachedFetch(url, fetchOptions, true) for the root
HdrV2Root ==
    /\ ~Asked("v2 root")
    /\ hSent' = fetchEach(hSent, "v2 root", fetchWithProxy(pxOutcomes, 0).contacted,
                          fetchOptionsOf(hOptions))
    /\ UNCHANGED <<engine, crawlVars, siteVars, firstResult, pxVars, retryVars,
                   cacheVars, extractVars, hOptions, appVars>>

\* the worker-pool engine: worker.postMessage({url, options: fetchOptions,
\* initiator}) and the worker's fetchWithProxy(url, options)
HdrV2Worker ==
    /\ ~Asked("v2 worker")
    /\ hSent' = fetchEach(hSent, "v2 worker",
                          workerFetchWithProxy(pxOutcomes, 0).contacted,
                          fetchOptionsOf(hOptions))
    /\ UNCHANGED <<engine, crawlVars, siteVars, firstResult, pxVars, retryVars,
                   cacheVars, extractVars, hOptions, appVars>>

\* the retry passes: cachedFetch(url, {}, true)
HdrRetryFetch ==
    /\ ~Asked("retry")
    /\ hSent' = fetchEach(hSent, "retry", fetchWithProxy(pxOutcomes, 0).contacted,
                          NoOptions)
    /\ UNCHANGED <<engine, crawlVars, siteVars, firstResult, pxVars, retryVars,
                   cacheVars, extractVars, hOptions, appVars>>

InitHeaders ==
    /\ engine = "v1"
    /\ InitCrawl
    /\ InitSite
    /\ pxOutcomes \in HeaderOutcomes
    /\ pxMain = {}
    /\ pxWorker = {}
    /\ InitNoRetry
    /\ InitNoExtract
    /\ InitNoApp
    /\ hOptions \in OptionChoices
    /\ hSent = {}

NextHeaders ==
    \/ HdrV1Fetch
    \/ HdrV2Root
    \/ HdrV2Worker
    \/ HdrRetryFetch

SpecHeaders == InitHeaders /\ [][NextHeaders]_vars

\* ------------------------------------------- the application's phases

\* what the user types in the form: a host name, and a text that new URL
\* rejects
FetchUrlChoices == {"x.com", "http://["}

\* the failedUrls a crawl returns
FailedChoices == {<<>>, <<UrlA>>, <<UrlA, UrlB>>}

\* the sessions kept in the history: the phase and the failed list they
\* were saved with
SessionChoices ==
    {[phase |-> "viewing", failedDownloads |-> <<>>],
     [phase |-> "viewing", failedDownloads |-> <<UrlA>>],
     [phase |-> "post-download-prompt", failedDownloads |-> <<UrlA>>]}

\* isLoading
isLoading == phase \in {"downloading", "retrying"}

\* the variables the application does not touch
AppFrame ==
    UNCHANGED <<engine, crawlVars, siteVars, firstResult, pxVars, retryVars,
                cacheVars, extractVars, headerVars>>

\* handleFetch(fetchUrl, options, engine) up to the await of
\* fetchWebsiteSource, or to its end when new URL throws.  The form is
\* rendered when the inspector is not, its button is disabled while
\* isLoading, and the retry dialog covers it.
HandleFetch ==
    /\ ~isLoading
    /\ ~(phase = "viewing" /\ scanResult # None)
    /\ phase # "post-download-prompt"
    /\ [kind |-> "fetch"] \notin appCalls
    /\ \E fetchUrl \in FetchUrlChoices :
         /\ scanResult' = None
         /\ failedDownloads' = <<>>
         /\ IF fetchUrl = "http://["
            THEN /\ phase' = "error"
                 /\ appCalls' = appCalls
            ELSE /\ phase' = "downloading"
                 /\ appCalls' = appCalls \cup {[kind |-> "fetch"]}
    /\ UNCHANGED appSettled
    /\ AppFrame

\* fetchWebsiteSource returns and handleFetch runs to its end
FetchReturns ==
    /\ [kind |-> "fetch"] \in appCalls
    /\ \E returned \in FailedChoices :
         /\ appSettled' = [kind |-> "fetch", threw |-> FALSE,
                           failedUrls |-> returned]
         /\ scanResult' = "crawl"
         /\ IF Len(returned) > 0
            THEN /\ failedDownloads' = returned
                 /\ phase' = "post-download-prompt"
            ELSE /\ failedDownloads' = failedDownloads
                 /\ phase' = "viewing"
    /\ appCalls' = appCalls \ {[kind |-> "fetch"]}
    /\ AppFrame

\* fetchWebsiteSource rejects and the catch block of handleFetch runs
FetchThrows ==
    /\ [kind |-> "fetch"] \in appCalls
    /\ appSettled' = [kind |-> "fetch", threw |-> TRUE, failedUrls |-> <<>>]
    /\ phase' = "error"
    /\ appCalls' = appCalls \ {[kind |-> "fetch"]}
    /\ UNCHANGED <<scanResult, failedDownloads>>
    /\ AppFrame

\* handleSkipRetry, the second button of the retry dialog
HandleSkipRetry ==
    /\ phase = "post-download-prompt"
    /\ phase' = "viewing"
    /\ UNCHANGED <<scanResult, failedDownloads, appCalls, appSettled>>
    /\ AppFrame

\* handleRetry, the first button of the retry dialog, up to the await of
\* retryFailedDownloads
HandleRetry ==
    /\ phase = "post-download-prompt"
    /\ IF scanResult = None \/ Len(failedDownloads) = 0
       THEN UNCHANGED <<phase, appCalls>>
       ELSE /\ phase' = "retrying"
            /\ appCalls' = appCalls \cup
                    {[kind |-> "retry", failedUrls |-> failedDownloads]}
    /\ UNCHANGED <<scanResult, failedDownloads, appSettled>>
    /\ AppFrame

\* retryFailedDownloads returns and handleRetry runs to its end
RetryReturns ==
    \E call \in appCalls :
        /\ call.kind = "retry"
        /\ \E stillFailedUrls \in SubSeqs(call.failedUrls, Len(call.failedUrls)) :
             /\ appSettled' = [kind |-> "retry", threw |-> FALSE,
                               failedUrls |-> stillFailedUrls]
             /\ scanResult' = "retry"
             /\ failedDownloads' = stillFailedUrls
             /\ phase' = IF Len(stillFailedUrls) > 0 THEN "post-download-prompt"
                                                    ELSE "viewing"
        /\ appCalls' = appCalls \ {call}
        /\ AppFrame

\* retryFailedDownloads rejects and the catch block of handleRetry runs
RetryThrows ==
    \E call \in appCalls :
        /\ call.kind = "retry"
        /\ appSettled' = [kind |-> "retry", threw |-> TRUE, failedUrls |-> <<>>]
        /\ phase' = "viewing"
        /\ appCalls' = appCalls \ {call}
        /\ UNCHANGED <<scanResult, failedDownloads>>
        /\ AppFrame

\* handleReset(fullReset): the 'Try Again' button of the error box, the
\* reset button of the inspector, and deleteSession and clearHistory of the
\* history sidebar, which the header opens in every phase
HandleReset ==
    /\ phase' = "initial"
    /\ scanResult' = None
    /\ failedDownloads' = <<>>
    /\ UNCHANGED <<appCalls, appSettled>>
    /\ AppFrame

\* loadSession(sessionUrl), the history sidebar's onLoad
LoadSession ==
    /\ \E session \in SessionChoices :
         /\ phase' = session.phase
         /\ failedDownloads' = session.failedDownloads
    /\ scanResult' = "session"
    /\ UNCHANGED <<appCalls, appSettled>>
    /\ AppFrame

InitApp ==
    /\ engine = "v1"
    /\ InitCrawl
    /\ InitSite
    /\ InitPx
    /\ InitMore

NextApp ==
    \/ HandleFetch
    \/ FetchReturns
    \/ FetchThrows
    \/ HandleSkipRetry
    \/ HandleRetry
    \/ RetryReturns
    \/ RetryThrows
    \/ HandleReset
    \/ LoadSession

SpecApp == InitApp /\ [][NextApp]_vars

\* ================================================================ claims

\* the URLs the crawl has met
SeenUrls == DOMAIN adds \cup DOMAIN enqueues \cup DOMAIN fetches

\* C1: in a discovery pass of either engine every URL is added to the
\* processed set at most once, is enqueued at most once and is handed to
\* the transport for at most one logical fetch.
C1_DedupOnce ==
    \A u \in SeenUrls :
        /\ Times(adds, u) <= 1
        /\ Times(enqueues, u) <= 1
        /\ Times(fetches, u) <= 1

\* C1 witness: in a worker-pool crawl the bodies of a.css and of b.js both
\* reference c.png, both have been extracted, and c.png was added, queued
\* and fetched once.
C1_Witness ==
    /\ engine = "v2"
    /\ UrlA \in DOMAIN refsOf
    /\ UrlB \in DOMAIN refsOf
    /\ UrlC \in Range(refsOf[UrlA])
    /\ UrlC \in Range(refsOf[UrlB])
    /\ Times(adds, UrlC) = 1
    /\ Times(enqueues, UrlC) = 1
    /\ Times(fetches, UrlC) = 1

\* C2: the worker-pool crawl does not report completion while a handler
\* that has received a fetch result is still decoding and extracting it.
C2_NoCompletionWhileDecoding ==
    [][(engine = "v2" /\ resolveCalls' > resolveCalls) => decoding' = {}]_vars

\* C3: in the worker-pool crawl activeWorkers equals the number of requests
\* posted to a worker and not yet answered, is never negative, and every
\* resolve happens with the queue empty and no request unanswered.
C3_ActiveWorkersCountsRequests ==
    /\ [](engine = "v2" =>
            /\ activeWorkers = Cardinality(inflight)
            /\ activeWorkers >= 0)
    /\ [][(engine = "v2" /\ resolveCalls' > resolveCalls) =>
            /\ Len(downloadQueue') = 0
            /\ inflight' = {}
            /\ activeWorkers' = 0]_vars

\* C3 witness: a worker-pool crawl that fetched through its workers has
\* resolved.
C3_Witness ==
    /\ engine = "v2"
    /\ promise = "resolved"
    /\ Times(fetches, UrlA) = 1
    /\ Times(fetches, UrlB) = 1
    /\ activeWorkers = 0

\* C4: when a pass reports completion every URL of the processed set has
\* been resolved: downloaded + |failedUrls| = |processed set|, each URL is
\* in the archive or in failedUrls, and no log entry is still 'Queued'.
C4_CompletionSettlesAll ==
    promise = "resolved" =>
        /\ result.downloaded + Len(result.failedUrls)
              = Cardinality(result.processed)
        /\ \A u \in result.processed :
              \/ /\ relativePath(u) \in DOMAIN result.zip
                 /\ result.zip[relativePath(u)] = u
              \/ u \in Range(result.failedUrls)
        /\ \A i \in 1..Len(result.networkLog) :
              result.networkLog[i].statusText # "Queued"

\* no proxy answers the root URL with a success status
RootUnreachable ==
    /\ RootUrl \in DOMAIN response
    /\ fetchWithProxy(response[RootUrl].outcomes, 0).threw

\* C5: if the root URL cannot be retrieved through any proxy, the pass
\* ends rejected, whichever engine runs it, and returns no result.
C5_RootFailureRejects ==
    (RootUnreachable /\ pc \in {"done", "failed"}) => promise = "rejected"

\* the fetch of u has been made and its outcome handled
Handled(u) ==
    /\ u \in DOMAIN response
    /\ Times(fetches, u) >= 1
    /\ ~(pc \in {"fetching", "rootFetch"} /\ current.url = u)
    /\ \A req \in inflight : req.url # u

\* the status a failed fetch of u ended with: 0 when fetchWithProxy threw,
\* the status the worker handed back otherwise
FailureStatus(u) ==
    IF engine = "v1"
    THEN 0
    ELSE workerFetchWithProxy(response[u].outcomes, 0).status

\* the fetch of u failed: fetchWithProxy threw, or the worker handed back
\* a status >= 400
FetchFailed(u) ==
    /\ Handled(u)
    /\ IF engine = "v1"
       THEN fetchWithProxy(response[u].outcomes, 0).threw
       ELSE \/ workerFetchWithProxy(response[u].outcomes, 0).threw
            \/ workerFetchWithProxy(response[u].outcomes, 0).status >= 400

\* the step handles a failed fetch while the queue holds further items
FailureStep ==
    /\ Len(failedUrls') = Len(failedUrls) + 1
    /\ Len(downloadQueue) > 0

\* after a failure the crawl is not rejected and takes the next item: v1
\* is back at the head of its loop with the queue untouched, v2 has posted
\* the head of the queue to a worker
GoesOn ==
    [][FailureStep =>
          /\ promise' # "rejected"
          /\ engine = "v1" => (pc' = "loop" /\ downloadQueue' = downloadQueue)
          /\ engine = "v2" =>
                \E req \in inflight' : req.url = Head(downloadQueue).url]_vars

\* what is recorded for a non-root URL whose fetch failed, given the set of
\* statuses its log entry may hold
FailureRecorded(u, statuses) ==
    /\ Count(failedUrls, u) = 1
    /\ Count(warnings, u) = 1
    /\ Cardinality({i \in 1..Len(networkLog) : networkLog[i].url = u}) = 1
    /\ \A i \in 1..Len(networkLog) :
          networkLog[i].url = u =>
              /\ networkLog[i].isError
              /\ networkLog[i].status \in statuses

C7_ProxyOrder ==
    \A m \in pxMain :
        LET n == Len(m.contacted)
        IN /\ \A i \in 1..n : m.contacted[i] = i - 1
           /\ \A i \in 1..(n - 1) : ~ResponseOk(pxOutcomes[i])
           /\ ~m.threw =>
                 /\ n >= 1
                 /\ ResponseOk(pxOutcomes[n])
                 /\ m.status = pxOutcomes[n]
                 /\ m.proxy = n - 1
           /\ (\E i \in 1..NumProxies : ResponseOk(pxOutcomes[i])) => ~m.threw

\* C7 witness: the first two proxies answer 500 and the third 200; the
\* result is the third proxy's response.
C7_Witness ==
    /\ pxOutcomes[1] = 500
    /\ pxOutcomes[2] = 500
    /\ pxOutcomes[3] = 200
    /\ \E m \in pxMain : m.proxy = 2 /\ m.status = 200 /\ m.contacted = <<0, 1, 2>>

\* C8: when no proxy succeeds fetchWithProxy throws after one attempt per
\* proxy; it never returns a non-success response and never contacts a
\* proxy twice.
C8_AllProxiesFail ==
    \A m \in pxMain :
        /\ (\A i \in 1..NumProxies : ~ResponseOk(pxOutcomes[i])) =>
              /\ m.threw
              /\ m.contacted = [i \in 1..NumProxies |-> i - 1]
        /\ ~m.threw => ResponseOk(m.status)
        /\ NoDup(m.contacted)

\* C8 witness: statuses 404 and 500 and connection failures only, and the
\* call has thrown.
C8_Witness ==
    /\ pxOutcomes[1] = 404
    /\ pxOutcomes[2] = 0
    /\ \A i \in 3..NumProxies : pxOutcomes[i] = 500
    /\ \E m \in pxMain : m.threw

\* the sets of a result that a caller can observe
Observed(r) ==
    [paths |-> DOMAIN r.zip,
     failed |-> Range(r.failedUrls),
     links |-> r.internalLinks,
     log |-> {[url |-> r.networkLog[i].url, isError |-> r.networkLog[i].isError] :
                 i \in 1..Len(r.networkLog)}]

\* C9: on the same site with the same proxy answers the worker-pool crawl
\* returns the archive paths, failed URLs, internal links and log (URLs
\* and isError flags) that the sequential crawl returned.
C9_ModesAgree ==
    (engine = "v2" /\ promise = "resolved") =>
        Observed(result) = Observed(firstResult)

NoClientErrorFirst ==
    \A i \in 1..NumProxies :
        (pxOutcomes[i] >= 400 /\ pxOutcomes[i] < 500) =>
            \E j \in 1..(i - 1) : ResponseOk(pxOutcomes[j])

Recovered == Range(rFailedUrls) \ Range(rStillFailedUrls)

\* the archive holds bytes of u that this pass wrote at `path`
WrittenAt(u, path) ==
    /\ path \in DOMAIN rZip
    /\ rZip[path].of = u
    /\ rZip[path].from \in {"retry", "cdn"}

\* some archived document holds the data URI made of u
InlinedSomewhere(u) ==
    \E path \in DOMAIN rZip : textIncludes(rZip[path].text, DataUriOf(u))

\* C11: in both retry variants a URL of the input list is left out of
\* stillFailedUrls only if the pass wrote its recovered bytes into the
\* archive, at the URL's derived path or as a data URI inside an archived
\* document.
C11_RemovedOnlyIfArchived ==
    rPc = "done" =>
        \A u \in Recovered : WrittenAt(u, relativePath(u)) \/ InlinedSomewhere(u)

\* C12: every URL the plain retry recovers is written at the path the
\* discovery pass derives for it (the path without its leading slash,
\* index.html when it is empty).
C12_RetryPathSameAsDiscovery ==
    (rVariant = "plain" /\ rPc = "done") =>
        \A u \in Recovered : WrittenAt(u, relativePath(u))

\* the answer is an http(s) URL that contains the file name of u
ValidAlternate(u, answer) ==
    isHttpUrl(answer) /\ textIncludes(answer, fileNameOf(u))

\* C13: findCdnUrl yields an alternate URL only for an answer that is an
\* http:// or https:// URL containing the failed URL's file name; after any
\* other answer the URL stays in stillFailedUrls.
C13_OnlyValidAlternates ==
    \A u \in DOMAIN rAnswers :
        (~rAnswers[u].threw /\ ~ValidAlternate(u, rAnswers[u].answer)) =>
            /\ rAnswers[u].cdnUrl = <<>>
            /\ rPc = "done" => u \in Range(rStillFailedUrls)

\* the URLs of the model that end in .js or .css and hold no 'data:'
CommonLibUrls == {UrlA, UrlB, UrlMin}

\* C14: in both variants the collaborator is consulted for a URL only after
\* the forced re-fetch of that URL failed in the same pass, only for a URL
\* ending in .js or .css without 'data:', and at most once per URL; a URL
\* whose re-fetch succeeded triggers no lookup.
C14_LookupOnlyAfterFailedRefetch ==
    \A u \in DOMAIN rLookups :
        /\ rLookups[u] = 1
        /\ u \in DOMAIN rRefetched
        /\ rRefetched[u] = "failed"
        /\ u \in CommonLibUrls

C14_Witness ==
    /\ rPc = "done"
    /\ UrlB \in DOMAIN rLookups
    /\ UrlData \in DOMAIN rRefetched
    /\ rRefetched[UrlData] = "failed"
    /\ UrlData \notin DOMAIN rLookups

\* the log entry of u
EntryOf(u) == rNetworkLog[findIndex(rNetworkLog, u)]

\* C15: a URL left in stillFailedUrls does not stop the pass (every URL of
\* the input list is attempted), and its log entry keeps isError = true and
\* has the failure reason appended to its status text, in either variant.
C15_StillFailedAnnotated ==
    rPc = "done" =>
        /\ DOMAIN rRefetched = Range(rFailedUrls)
        /\ \A u \in Range(rStillFailedUrls) :
              /\ EntryOf(u).isError
              /\ EntryOf(u).statusText # "Download Failed"

\* the text mentions u by its full URL or by its file name
References(text, u) ==
    \/ textIncludes(text, href(u))
    \/ fileNameOf(u) # <<>> /\ textIncludes(text, fileNameOf(u))

\* C16: in the inlining variant, when a URL is recovered, every archived
\* document that referenced it holds the data URI in place of the
\* reference, not only the document the log names as its initiator.
C16_EveryReferrerPatched ==
    (rVariant = "inline" /\ rPc = "done" /\ rPatchFailed = {}) =>
        \A u \in Recovered : \A path \in DOMAIN rZip0 :
            References(rZip0[path].text, u) =>
                /\ ~References(rZip[path].text, u)
                /\ textIncludes(rZip[path].text, DataUriOf(u))

\* C17: in the inlining variant a document that cannot be patched does not
\* end the pass: every other initiator document is rewritten as if nothing
\* had failed, and the pass returns.
C17_PatchFailureDoesNotAbort ==
    /\ rPc # "threw"
    /\ (rVariant = "inline" /\ rPc = "done") =>
          \A i \in 1..Len(rInitiatorsToPatch) :
              LET entry == rInitiatorsToPatch[i]
                  path == relativePath(entry.initiator)
              IN entry.initiator \notin rPatchFailed =>
                    /\ path \in DOMAIN rZip
                    /\ rZip[path].text =
                          patchContent(rZip0[path].text, entry.replacements)

C17_Witness ==
    /\ rVariant = "inline"
    /\ rPc = "done"
    /\ rPatchFailed # {}
    /\ \E i \in 1..Len(rInitiatorsToPatch) :
          /\ rInitiatorsToPatch[i].initiator \notin rPatchFailed
          /\ rZip[relativePath(rInitiatorsToPatch[i].initiator)] #
                rZip0[relativePath(rInitiatorsToPatch[i].initiator)]

\* ---------------------------------------------------- the network log

\* C18: during a discovery pass, in either mode, the log never holds two
\* entries with the same URL, no entry is removed, and an entry stays at
\* its place with its URL when it is updated.
C18_OneEntryPerUrl ==
    /\ [](\A i, j \in 1..Len(networkLog) :
             networkLog[i].url = networkLog[j].url => i = j)
    /\ [][/\ Len(networkLog') >= Len(networkLog)
          /\ \A i \in 1..Len(networkLog) :
                /\ networkLog'[i].url = networkLog[i].url
                /\ networkLog'[i].initiator = networkLog[i].initiator]_vars

C18_Witness ==
    /\ engine = "v2"
    /\ \E i \in 1..Len(networkLog) :
          /\ networkLog[i].initiator # "Initial Request"
          /\ networkLog[i].statusText = "OK"
    /\ \E i \in 1..Len(networkLog) : networkLog[i].statusText = "Queued"


\* --------------------------------------------------- the fetch cache

\* the calls for the URL of call j made after call i and before call j
\* are all made without forceFresh
NoForcedBetween(i, j) ==
    \A m \in (i + 1)..(j - 1) :
        cfCalls[m].url = cfCalls[j].url => ~cfCalls[m].forceFresh

\* C19: a cachedFetch call made without forceFresh while an earlier call
\* of the same crawl for the same URL is in flight or has succeeded issues
\* no Transport Layer request and gets the outcome of the earlier request.
C19_SharedRequest ==
    \A j \in 1..Len(cfCalls) : \A i \in 1..(j - 1) :
        (/\ ~cfCalls[j].forceFresh
         /\ cfCalls[i].url = cfCalls[j].url
         /\ cfCalls[i].request \in cfCalls[j].live
         /\ NoForcedBetween(i, j))
        => /\ ~cfCalls[j].own
           /\ cfCalls[j].request = cfCalls[i].request

C19_Witness ==
    \E j \in 1..Len(cfCalls) : \E i, k \in 1..(j - 1) :
        /\ ~cfCalls[j].forceFresh /\ ~cfCalls[k].forceFresh
        /\ cfCalls[i].url = cfCalls[j].url
        /\ cfCalls[k].url = cfCalls[j].url
        /\ k > i
        /\ cfCalls[i].own
        /\ cfCalls[k].fulfilled = {}
        /\ cfCalls[k].request = cfCalls[i].request
        /\ cfCalls[j].fulfilled = {cfCalls[i].request}
        /\ cfCalls[j].request = cfCalls[i].request

PreviousCall(j) ==
    LET before == {i \in 1..(j - 1) : cfCalls[i].url = cfCalls[j].url}
    IN IF before = {} THEN 0
       ELSE CHOOSE i \in before : \A k \in before : k <= i

\* a request for the URL of call j failed after the previous call for that
\* URL was made and before call j
FailedJustBefore(j) ==
    /\ PreviousCall(j) # 0
    /\ cfCalls[j].rejected # cfCalls[PreviousCall(j)].rejected

\* C21: after a cachedFetch for a URL has failed the cache holds no
\* rejected entry for that URL, and the next cachedFetch for the URL made
\* without forceFresh issues a new Transport Layer request and does not
\* await the failed one.
C21_FailureEvicted ==
    /\ \A url \in DOMAIN cfCache : cfRequests[cfCache[url]].state # "rejected"
    /\ \A j \in 1..Len(cfCalls) :
          (~cfCalls[j].forceFresh /\ FailedJustBefore(j))
          => /\ cfCalls[j].own
             /\ cfCalls[j].request \notin cfCalls[j].rejected

C21_Witness ==
    \E j \in 1..Len(cfCalls) :
        /\ ~cfCalls[j].forceFresh
        /\ FailedJustBefore(j)
        /\ cfCalls[PreviousCall(j)].request \in cfCalls[j].rejected
        /\ cfCalls[j].own
        /\ cfCalls[j].url \in DOMAIN cfCache
        /\ cfRequests[cfCalls[j].request].state = "fulfilled"

\* ------------------------------------------------- the discovery pass

\* the log says that the fetch of u succeeded
FetchedOk(u) ==
    \E i \in 1..Len(networkLog) :
        /\ networkLog[i].url = u
        /\ ~networkLog[i].isError
        /\ networkLog[i].statusText # "Queued"

\* the URL path without its leading slash, index.html when that is empty
PathInArchive(u) ==
    IF URL(u).pathname = <<>> THEN <<"index.html">> ELSE URL(u).pathname

\* C22: in both modes the bytes of a successfully fetched URL are in the
\* archive at its URL path without the leading slash, at index.html when
\* the path is empty: https://x.com/ at index.html, https://x.com/js/b.js
\* at js/b.js.
C22_ArchivePath ==
    /\ \A u \in SeenUrls :
          FetchedOk(u) => /\ PathInArchive(u) \in DOMAIN zip
                          /\ zip[PathInArchive(u)] = u
    /\ FetchedOk(RootUrl) => /\ <<"index.html">> \in DOMAIN zip
                             /\ zip[<<"index.html">>] = RootUrl
    /\ FetchedOk(UrlB) => /\ <<"js", "b.js">> \in DOMAIN zip
                          /\ zip[<<"js", "b.js">>] = UrlB
    /\ \A path \in DOMAIN zip : path = PathInArchive(zip[path])

C22_Witness ==
    /\ engine = "v2"
    /\ promise = "resolved"
    /\ FetchedOk(RootUrl)
    /\ FetchedOk(UrlB)
    /\ DOMAIN result.zip = {<<"index.html">>, <<"js", "b.js">>}

\* the items that have succeeded: fetched, stored and, when their body is
\* read, past the reading
SucceededSoFar ==
    {u \in SeenUrls : FetchedOk(u) /\ \A h \in decoding : h.url # u}

\* this step is the end of the work on one queue item: the loop body of
\* the sequential engine, or a run of handleWorkerMessage to its end
ItemCompleted ==
    \/ engine = "v1" /\ pc = "fetching" /\ pc' = "loop"
    \/ /\ engine = "v2"
       /\ engine' = "v2"
       /\ \E h \in inflight \cup decoding : h \notin inflight' /\ h \notin decoding'

\* C23: in both modes the end of the work on a queue item, succeeded or
\* failed, comes with an onProgress call whose downloaded is the number of
\* items that have succeeded and whose total is the size of the processed
\* set.
C23_ProgressAfterEveryItem ==
    [][ItemCompleted =>
         /\ progressCalls' > progressCalls
         /\ progress'.downloaded = Cardinality(SucceededSoFar')
         /\ progress'.total = Cardinality(processedUrls')]_vars

\* the URLs whose path ends in a known asset extension
AssetUrls == {UrlA, UrlB, UrlC, PageLogo, UrlMin, UrlData}

\* l is an internal link of the root document
FromRootAnchor(l) ==
    /\ URL(l).origin = "https://x.com"
    /\ l \notin AssetUrls
    /\ RootUrl \in DOMAIN anchorsOf
    /\ l \in Range(anchorsOf[RootUrl])

\* C24: every URL of internalLinks has the origin of the root URL, a path
\* not ending in a known asset extension, and is an anchor of the root
\* document: the anchors of other fetched documents add nothing.
C24_InternalLinksFromRoot ==
    /\ \A l \in internalLinks : FromRootAnchor(l)
    /\ promise = "resolved" => \A l \in result.internalLinks : FromRootAnchor(l)

C24_Witness ==
    /\ promise = "resolved"
    /\ \E i \in 1..Len(networkLog) :
          /\ networkLog[i].url = UrlC
          /\ networkLog[i].contentType = "text/html"
          /\ networkLog[i].status = 200
    /\ UrlC \in DOMAIN anchorsOf /\ PageAbout \in Range(anchorsOf[UrlC])
    /\ result.internalLinks = {PageAbout}

\* ------------------------------------------------- the Resource Extractor

\* C25: for every content type, no URL findAllResources returns has the
\* data: or the blob: scheme.
C25_NoDataOrBlobReturned ==
    xResources # None =>
        \A i \in 1..Len(xResources) : Head(xResources[i]) \notin {"data:", "blob:"}

\* ------------------------------------------------- the request headers

\* the request carries the headers the caller supplied, with User-Agent
\* set to the supplied userAgent when that is not empty
CarriesSupplied(req) ==
    /\ \A n \in DOMAIN hOptions.headers :
          /\ n \in DOMAIN req.headers
          /\ (n # "User-Agent" \/ hOptions.userAgent = "")
                => req.headers[n] = hOptions.headers[n]
    /\ hOptions.userAgent # ""
          => /\ "User-Agent" \in DOMAIN req.headers
             /\ req.headers["User-Agent"] = hOptions.userAgent

\* C26: every request made to a proxy, by either crawl mode or by the
\* re-fetch of a retry pass, at every proxy-fallback attempt, carries the
\* caller-supplied headers with User-Agent set to the supplied userAgent
\* when it is not empty.
C26_HeadersForwarded ==
    \A req \in hSent : CarriesSupplied(req)

\* ------------------------------------------------- the worker pool

\* the workers that have a request not yet answered
BusyWorkers == {req.worker : req \in inflight}

\* the result of worker w is handled in this step: the run of
\* handleWorkerMessage for it ends
ResultHandled(w) ==
    \E h \in inflight \cup decoding :
        h.worker = w /\ h \notin inflight' /\ h \notin decoding'

\* C27: in worker-pool mode at most CONCURRENCY fetches are in flight, a
\* worker has at most one unanswered request, a worker of the idle list has
\* none, and a URL is sent only to a worker that was idle or whose result
\* has just been handled: with all workers busy it waits in the queue.
C27_PoolBound ==
    /\ [](/\ Cardinality(inflight) <= CONCURRENCY
          /\ \A a, b \in inflight : a.worker = b.worker => a = b
          /\ Range(idleWorkers) \cap BusyWorkers = {})
    /\ [][\A req \in inflight' \ inflight :
             \/ req.worker \in Range(idleWorkers)
             \/ ResultHandled(req.worker)]_vars

\* no handler is running and completion has not been reported
Quiescent ==
    /\ engine = "v2"
    /\ pc = "running"
    /\ decoding = {}
    /\ resolveCalls = 0

\* C28: in worker-pool mode, before completion is reported, in no state
\* without a running handler is the queue non-empty while some worker has
\* no unanswered request.
C28_NoIdleWorkerWithQueue ==
    Quiescent =>
        ~(/\ Len(downloadQueue) > 0
          /\ \E w \in 1..CONCURRENCY : w \notin BusyWorkers)

C28_Witness ==
    /\ Quiescent
    /\ Len(downloadQueue) > 0
    /\ Cardinality(BusyWorkers) = CONCURRENCY

\* ------------------------------------------------- termination

\* C29: on every finite site, reference cycles and self-references
\* included, and with every fetch settling, a discovery pass of either
\* engine completes: its promise is resolved or rejected.
C29_PassCompletes == <>(promise \in {"resolved", "rejected"})

C29_Witness ==
    /\ engine = "v2"
    /\ promise = "resolved"
    /\ refsOf[UrlA] = <<RootUrl, UrlA>>
    /\ refsOf[UrlB] = <<UrlC, UrlA>>
    /\ FetchedOk(UrlA)
    /\ FetchedOk(UrlB)

\* ------------------------------------------------- the sequential engine

\* the URLs whose fetch has begun and has not settled
PendingFetches == {u \in DOMAIN fetchCache : fetchCache[u] = "pending"}

\* s is the beginning of t
IsPrefix(s, t) == Len(s) <= Len(t) /\ s = SubSeq(t, 1, Len(s))

\* the elements of s are elements of t, once each and in the order of t
InOrderOf(s, t) ==
    /\ NoDup(s)
    /\ Range(s) \subseteq Range(t)
    /\ \A i, j \in 1..Len(s) :
          i < j => \E m, n \in 1..Len(t) : m < n /\ t[m] = s[i] /\ t[n] = s[j]

\* C30: in sequential mode at most one fetch is in flight, the URLs are
\* fetched in the order of their first discovery, the root first, and the
\* archive is written in the order in which the URLs were taken from the
\* queue.
C30_SequentialFifo ==
    engine = "v1" =>
        /\ Cardinality(PendingFetches) <= 1
        /\ inflight = {}
        /\ NoDup(discovered)
        /\ IsPrefix(fetchOrder, discovered)
        /\ (discovered # <<>> => discovered[1] = RootUrl)
        /\ InOrderOf(written, fetchOrder)

C30_Witness ==
    /\ engine = "v1"
    /\ promise = "resolved"
    /\ fetchOrder = <<RootUrl, UrlB, UrlC, UrlA>>
    /\ written = <<RootUrl, UrlB, UrlA>>

\* ------------------------------------------------- paths and origins

\* C31: within one discovery pass no archive path is written more than
\* once: two fetched URLs are never stored under the same path.
C31_NoPathWrittenTwice ==
    \A i, j \in 1..Len(written) :
        i # j => relativePath(written[i]) # relativePath(written[j])

\* C32: every URL that is enqueued or fetched in a discovery pass has the
\* origin of the root URL.
C32_SameOriginOnly ==
    \A u \in Range(discovered) \cup Range(fetchOrder) :
        URL(u).origin = URL(RootUrl).origin

\* ------------------------------------------------------- initiators

\* the entry at position i of the log is the root's
IsRootEntry(i) ==
    networkLog[i].url = RootUrl /\ networkLog[i].initiator = "Initial Request"

\* an entry before position i records a successful fetch of `url`
SucceededBefore(i, url) ==
    \E j \in 1..(i - 1) :
        /\ networkLog[j].url = url
        /\ ~networkLog[j].isError
        /\ ResponseOk(networkLog[j].status)

\* C33: every log entry other than the root's names as initiator a URL
\* that was fetched with success earlier in the pass and whose body
\* references the entry's URL; an initiator's entry stands before the
\* entries it initiated, so that following initiators ends at the root.
C33_InitiatorFetchedBefore ==
    \A i \in 1..Len(networkLog) :
        \/ IsRootEntry(i)
        \/ LET entry == networkLog[i]
           IN /\ entry.url # RootUrl
              /\ entry.initiator # entry.url
              /\ SucceededBefore(i, entry.initiator)
              /\ entry.initiator \in Range(written)
              /\ entry.initiator \in DOMAIN refsOf
              /\ entry.url \in Range(refsOf[entry.initiator])

\* a finished pass whose log holds an entry initiated by a document other
\* than the root, which itself references the root
C33_Witness ==
    /\ promise = "resolved"
    /\ \E i \in 1..Len(networkLog) :
          /\ networkLog[i].initiator \in {UrlA, UrlB}
          /\ RootUrl \in Range(refsOf[networkLog[i].initiator])

\* ------------------------------------------- bodies that cannot be parsed

\* the body of u was stored and the handling of u has run to its end
StoredAndDone(u) ==
    /\ u \in Range(written)
    /\ ~\E h \in decoding : h.url = u

\* the URLs queued with u as their initiator
InitiatedBy(u) ==
    {downloadQueue[i].url : i \in {k \in 1..Len(downloadQueue) :
                                      downloadQueue[k].initiator = u}}
    \cup {networkLog[i].url : i \in {k \in 1..Len(networkLog) :
                                        networkLog[k].initiator = u}}
    \cup (IF pc \in {"fetching", "rootFetch"} /\ current.initiator = u
           THEN {current.url} ELSE {})

\* u is in the archive, has one log entry, a success, and is not in
\* failedUrls
KeptAsSuccess(u) ==
    /\ relativePath(u) \in DOMAIN zip
    /\ zip[relativePath(u)] = u
    /\ \E i \in 1..Len(networkLog) :
          /\ networkLog[i].url = u
          /\ ~networkLog[i].isError
          /\ ResponseOk(networkLog[i].status)
          /\ \A j \in 1..Len(networkLog) : networkLog[j].url = u => j = i
    /\ u \notin Range(failedUrls)

\* C34 as stated: a fetched text-like resource whose body cannot be parsed
\* is stored, is logged once as a success, is not in failedUrls and
\* contributes no new URL, in both modes.
C34_UnparsableContributesNothing ==
    \A u \in unparsable :
        StoredAndDone(u) => KeptAsSuccess(u) /\ InitiatedBy(u) = {}

\* C34 amended: a fetched text-like resource whose body cannot be parsed is
\* stored, is logged once as a success and is not in failedUrls, in both
\* modes; a JSON body contributes no new URL, while a script contributes the
\* URLs that the regex pass over its quoted strings finds.
C34_UnparsableKept ==
    \A u \in unparsable :
        StoredAndDone(u) =>
            /\ KeptAsSuccess(u)
            /\ includes(response[u].header, "json") => InitiatedBy(u) = {}

\* a finished pass that handled a rejected manifest and a rejected script,
\* the script having contributed a URL
C34_Witness ==
    /\ promise = "resolved"
    /\ unparsable = {UrlB, UrlC}
    /\ StoredAndDone(UrlB)
    /\ StoredAndDone(UrlC)
    /\ UrlA \in InitiatedBy(UrlB)

\* ------------------------------------------------ the phases of the App

\* the call of fetchWebsiteSource settles in this step
FetchSettles == [kind |-> "fetch"] \in appCalls \ appCalls'

\* C35: 'downloading' is left only to 'viewing' (the crawl returned no
\* failed URL), to 'post-download-prompt' (it returned one or more) or to
\* 'error' (the call failed); 'retrying' is entered only with a stored
\* result and a failed list that is not empty, and is left only to
\* 'viewing' or 'post-download-prompt'.
C35_PhaseMachine ==
    [][/\ (phase = "downloading" /\ phase' # "downloading") =>
            /\ FetchSettles
            /\ \/ /\ phase' = "viewing"
                  /\ ~appSettled'.threw
                  /\ appSettled'.failedUrls = <<>>
               \/ /\ phase' = "post-download-prompt"
                  /\ ~appSettled'.threw
                  /\ appSettled'.failedUrls # <<>>
               \/ /\ phase' = "error"
                  /\ appSettled'.threw
       /\ (phase # "retrying" /\ phase' = "retrying") =>
            scanResult # None /\ failedDownloads # <<>>
       /\ (phase = "retrying" /\ phase' # "retrying") =>
            phase' \in {"viewing", "post-download-prompt"}
      ]_vars

\* ------------------------------------------------ isError and failed lists

\* every entry of `log` has isError exactly when its URL is in `failed`
ErrorsAre(log, failed) ==
    \A i \in 1..Len(log) : log[i].isError <=> log[i].url \in Range(failed)

\* C36: at the end of a pass (a discovery pass of either engine, a plain
\* retry, an inlining retry) a log entry has isError exactly when its URL is
\* in the failed list the pass returns.
C36_ErrorIffFailed ==
    /\ promise = "resolved" =>
          /\ ErrorsAre(result.networkLog, result.failedUrls)
          /\ ErrorsAre(networkLog, failedUrls)
    /\ rPc = "done" => ErrorsAre(rNetworkLog, rStillFailedUrls)

\* a finished plain retry that recovered one URL and left another failed
C36_Witness ==
    /\ rPc = "done"
    /\ rVariant = "plain"
    /\ rFailedUrls = <<UrlB, UrlC>>
    /\ rStillFailedUrls = <<UrlC>>

\* ------------------------------------------------ what a retry pass touches

\* the log the pass was called with
RetryLog0 == CrawlLog(CrawlOrder, Range(rFailedUrls))

\* the URLs the pass has recovered so far
RetryRecovered ==
    {rFailedUrls[i] : i \in 1..(rIndex - 1)} \ Range(rStillFailedUrls)

\* the archive paths whose content the pass has written
RetryWrittenPaths ==
    {path \in DOMAIN rZip : path \notin DOMAIN rZip0 \/ rZip[path] # rZip0[path]}

\* the log has the entries it came in with, those of URLs outside the
\* failed list as they were
RetryLogFrame ==
    /\ Len(rNetworkLog) = Len(RetryLog0)
    /\ \A i \in 1..Len(rNetworkLog) :
          /\ rNetworkLog[i].url = RetryLog0[i].url
          /\ rNetworkLog[i].url \notin Range(rFailedUrls)
               => rNetworkLog[i] = RetryLog0[i]

\* the URLs were attempted once each, in the order of the list
RetryAttemptsInOrder ==
    /\ rFetchCache.fetchOrder = SubSeq(rFailedUrls, 1, rIndex - 1)
    /\ rPc = "done" => rFetchCache.fetchOrder = rFailedUrls

\* C37: a retry pass neither adds nor removes log entries and changes no
\* entry of a URL outside its failed list; it attempts each URL of the list
\* once, in list order; the plain variant writes no archive path other than
\* the derived paths of the URLs it recovered.
C37_RetryFrame ==
    rPc \in {"loop", "done"} =>
        /\ RetryLogFrame
        /\ RetryAttemptsInOrder
        /\ rVariant = "plain" =>
              RetryWrittenPaths \subseteq {relativePath(u) : u \in RetryRecovered}

\* -------------------------------------------------- overlapping passes

\* request id rejects in this step
RejectsNow(id) ==
    /\ id \in 1..Len(cfRequests)
    /\ cfRequests[id].state = "pending"
    /\ cfRequests'[id].state = "rejected"

\* C38: the failure of a cachedFetch request evicts only the entry of that
\* request: when the entry of its URL holds another, newer request (put
\* there by a later call with forceFresh), the failure leaves that entry in
\* the cache.
C38_OwnEntryOnly ==
    [][\A id \in 1..Len(cfRequests) :
          LET url == cfRequests[id].url
          IN (/\ RejectsNow(id)
              /\ url \in DOMAIN cfCache
              /\ cfCache[url] # id)
             => /\ url \in DOMAIN cfCache'
                /\ cfCache'[url] = cfCache[url]]_vars

\* ------------------------------------------------ signalling completion

\* C39: a discovery pass signals completion exactly once, by either engine,
\* for any pool size and any number of resources on the root document, none
\* included: the 'Finalizing ZIP file...' progress call and the resolve are
\* made once per crawl.
C39_CompletionOnce ==
    /\ resolveCalls <= 1
    /\ promise = "resolved" => resolveCalls = 1

====
